---- MODULE Spec2Model ----
(***************************************************************************)
(* CalAi: the decomposition stage (agent1_decomposer.py), the mass stage   *)
(* (agent2_masscalculator.py), the nutrition stage                         *)
(* (agent3_nutritioncalculator.py), the pipeline runner (calai.py), the    *)
(* dialogue step (agents/dialogue_agent.py), the input server              *)
(* (input_server.py) and the router (router_agent.py) as state machines,   *)
(* one specification per component.                                        *)
(*                                                                         *)
(* Numbers.  Python floats are modelled as exact rationals <<n, d>> in     *)
(* lowest terms with d > 0 where the code divides, and as integers in a    *)
(* fixed unit where it only multiplies and rounds:                         *)
(*   decomposition  volume in millilitres, percentage in percent           *)
(*   mass stage     volume in 1e-4 L, density in 1e-2 kg/L,                *)
(*                  mass in centigrams (round(x, 2) lands on this grid)    *)
(*   nutrition      mass and serving size in centigrams, nutrients in      *)
(*                  hundredths of their unit                               *)
(* Every answer of an external service (LLM, web search, PDF index) is an  *)
(* input chosen with \E from a small set.                                  *)
(***************************************************************************)
EXTENDS Integers, Sequences, FiniteSets, TLC

VARIABLES
    d_data,      \* agent1: the input JSON document
    d_items,     \* agent1: process_json_file's normalised item list
    d_idx,       \* agent1: number of items the loop has consumed
    d_results,   \* agent1: process_json_file's results list
    d_calls,     \* agent1: external calls made for the last item, in order
    d_answer,    \* agent1: the decomposition answer given for the last item
    d_pc,        \* agent1: position of main()
    d_output     \* agent1: agent1_output.json (Missing until written)

decVars == <<d_data, d_items, d_idx, d_results, d_calls, d_answer, d_pc, d_output>>

VARIABLES
    m_foods,     \* agent2: decomposed_foods of the input document
    m_food,      \* agent2: number of foods process_agent1_output has finished
    m_masses,    \* agent2: ingredient_masses of the food being calculated
    m_calls,     \* agent2: strategies called for the current ingredient, with returns
    m_pc,        \* agent2: position of main() / get_density_with_fallback
    m_results,   \* agent2: process_agent1_output's results list
    m_output     \* agent2: agent2_output.json (Missing until written)

massVars == <<m_foods, m_food, m_masses, m_calls, m_pc, m_results, m_output>>

VARIABLES
    n_masses,    \* agent3: food_masses of the input document
    n_idx,       \* agent3: number of food items the loop has consumed
    n_segments,  \* agent3: processed_segments
    n_pc,        \* agent3: position of main()
    n_output     \* agent3: agent3_output.json (Missing until written)

nutVars == <<n_masses, n_idx, n_segments, n_pc, n_output>>

VARIABLES
    r_args,      \* runner: number of command-line arguments given (image, session)
    r_python,    \* runner: whether the "python" executable is found
    r_disk,      \* runner: the stage output files present in the working directory
    r_written,   \* runner: the stage output files written during this run
    r_started,   \* runner: the stages started so far, in order
    r_log,       \* runner: the stages that ended, with their exit status
    r_pc         \* runner: position of main()

runVars == <<r_args, r_python, r_disk, r_written, r_started, r_log, r_pc>>

VARIABLES
    q_segments,    \* dialogue: analysis_results of the identification output
    q_questions,   \* dialogue: all_questions
    q_ranking,     \* dialogue: the ranking call's answer (None: not called)
    q_selected,    \* dialogue: selected_questions
    q_bulk,        \* dialogue: bulk_answer (None: not asked for)
    q_answers,     \* dialogue: user_answers, segment id -> answer
    q_results,     \* dialogue: final_results
    q_additional,  \* dialogue: additional_suggestions (None: not asked for yet)
    q_pc           \* dialogue: position of confirm_analysis

dlgVars == <<q_segments, q_questions, q_ranking, q_selected, q_bulk, q_answers,
             q_results, q_additional, q_pc>>

VARIABLES
    i_pending,     \* input server: pending_input
    i_threads,     \* input server: the /get-input requests being handled
    i_submitted,   \* input server: number of /submit-input requests handled
    i_agent        \* dialogue agent: position of _get_user_input

inVars == <<i_pending, i_threads, i_submitted, i_agent>>

VARIABLES
    t_query,       \* router: user_query
    t_image,       \* router: whether image_path is given
    t_history,     \* router: messages of conversation_history.json
    t_calls,       \* router: decide_workflow and agent calls made, in order
    t_decision,    \* router: decision (None before routing)
    t_result,      \* router: process_request's return value (None before)
    t_pc           \* router: position of process_request

rtVars == <<t_query, t_image, t_history, t_calls, t_decision, t_result, t_pc>>

vars == <<decVars, massVars, nutVars, runVars, dlgVars, inVars, rtVars>>

\* The variables of the other components, as seen from each one.
notDecVars == <<massVars, nutVars, runVars, dlgVars, inVars, rtVars>>
notMassVars == <<decVars, nutVars, runVars, dlgVars, inVars, rtVars>>
notNutVars == <<decVars, massVars, runVars, dlgVars, inVars, rtVars>>
notRunVars == <<decVars, massVars, nutVars, dlgVars, inVars, rtVars>>
notDlgVars == <<decVars, massVars, nutVars, runVars, inVars, rtVars>>
notInVars == <<decVars, massVars, nutVars, runVars, dlgVars, rtVars>>
notRtVars == <<decVars, massVars, nutVars, runVars, dlgVars, inVars>>

(***************************************************************************)
(* Bounds of the model.                                                    *)
(***************************************************************************)
MaxItems == 2
MaxFoods == 2
MaxIngredients == 2
MaxSegments == 2

\* A JSON key that is absent (also used for a file that was not written).
Missing == <<>>

\* The value returned when a call yields no result.
None == [kind |-> "None"]

(***************************************************************************)
(* A component that is not the one under study does not run.               *)
(***************************************************************************)
DecomposeIdle ==
    /\ d_data = [keys |-> {}, verified_volumes |-> <<>>, confirmed_results |-> <<>>]
    /\ d_items = <<>>
    /\ d_idx = 0
    /\ d_results = <<>>
    /\ d_calls = <<>>
    /\ d_answer = None
    /\ d_pc = "idle"
    /\ d_output = Missing

MassIdle ==
    /\ m_foods = <<>>
    /\ m_food = 0
    /\ m_masses = <<>>
    /\ m_calls = <<>>
    /\ m_pc = "idle"
    /\ m_results = <<>>
    /\ m_output = Missing

NutritionIdle ==
    /\ n_masses = <<>>
    /\ n_idx = 0
    /\ n_segments = <<>>
    /\ n_pc = "idle"
    /\ n_output = Missing

RunnerIdle ==
    /\ r_args = 0
    /\ r_python = FALSE
    /\ r_disk = {}
    /\ r_written = {}
    /\ r_started = <<>>
    /\ r_log = <<>>
    /\ r_pc = "idle"

DialogueIdle ==
    /\ q_segments = <<>>
    /\ q_questions = <<>>
    /\ q_ranking = None
    /\ q_selected = <<>>
    /\ q_bulk = None
    /\ q_answers = <<>>
    /\ q_results = <<>>
    /\ q_additional = None
    /\ q_pc = "idle"

InputIdle ==
    /\ i_pending = [data |-> None, ready |-> FALSE]
    /\ i_threads = <<>>
    /\ i_submitted = 0
    /\ i_agent = [pc |-> "idle"]

RouterIdle ==
    /\ t_query = None
    /\ t_image = FALSE
    /\ t_history = <<>>
    /\ t_calls = <<>>
    /\ t_decision = None
    /\ t_result = None
    /\ t_pc = "idle"

\* Every component but the named one is idle.
IdleExcept(component) ==
    /\ component = "decompose" \/ DecomposeIdle
    /\ component = "mass" \/ MassIdle
    /\ component = "nutrition" \/ NutritionIdle
    /\ component = "runner" \/ RunnerIdle
    /\ component = "dialogue" \/ DialogueIdle
    /\ component = "input" \/ InputIdle
    /\ component = "router" \/ RouterIdle

(***************************************************************************)
(* Exact arithmetic standing for Python's float arithmetic.                *)
(***************************************************************************)
Abs(x) == IF x < 0 THEN -x ELSE x

RECURSIVE GCD(_, _)
GCD(a, b) == IF b = 0 THEN a ELSE GCD(b, a % b)

\* n/d in lowest terms, d /= 0
Rat(n, d) ==
    LET g == GCD(Abs(n), Abs(d))
        s == IF d < 0 THEN -1 ELSE 1
    IN  <<(s * n) \div g, (s * d) \div g>>

RatInt(i) == <<i, 1>>
RatMul(x, y) == Rat(x[1] * y[1], x[2] * y[2])
\* x / y, y /= 0
RatDiv(x, y) == Rat(x[1] * y[2], x[2] * y[1])
RatAdd(x, y) == Rat(x[1] * y[2] + y[1] * x[2], x[2] * y[2])

RECURSIVE SumInts(_)
SumInts(s) == IF s = <<>> THEN 0 ELSE Head(s) + SumInts(Tail(s))

RECURSIVE SumRats(_)
SumRats(s) == IF s = <<>> THEN RatInt(0) ELSE RatAdd(Head(s), SumRats(Tail(s)))

(***************************************************************************)
(* Agent 1: the decomposition stage.                                       *)
(***************************************************************************)
\* Segment volumes (millilitres) the input document may carry.
VolumeSet == {200, 400}

\* The entries of final_confirmed_output.json's confirmed_results, as the
\* dialogue step writes them.
ConfirmedEntries(i) ==
    { [segment_id |-> i, final_food_name |-> "Paneer Curry", volume_litres |-> v] :
        v \in VolumeSet }

\* The entries of verified_volumes.json's verified_volumes (confidence in
\* hundredths): the fallback entry of a failed verification, an override
\* given with confidence 0.6, an override given with confidence 0.85.
VerifiedEntries(i) ==
    { [segment_id |-> i, food_name |-> "Paneer",
       original_volume_litres |-> 200, suggested_volume_litres |-> 200,
       confidence |-> 50, adjustment_made |-> FALSE],
      [segment_id |-> i, food_name |-> "Paneer",
       original_volume_litres |-> 200, suggested_volume_litres |-> 400,
       confidence |-> 60, adjustment_made |-> TRUE],
      [segment_id |-> i, food_name |-> "Paneer",
       original_volume_litres |-> 400, suggested_volume_litres |-> 200,
       confidence |-> 85, adjustment_made |-> TRUE] }

\* Lists of n entries with the segment ids 1..n (unique per image).
ConfirmedLists ==
    { l \in UNION { [1..n -> UNION { ConfirmedEntries(i) : i \in 1..n }] : n \in 0..MaxItems } :
        \A i \in 1..Len(l) : l[i].segment_id = i }

VerifiedLists ==
    { l \in UNION { [1..n -> UNION { VerifiedEntries(i) : i \in 1..n }] : n \in 0..MaxItems } :
        \A i \in 1..Len(l) : l[i].segment_id = i }

\* The confirmed_results a verification was made from: the same segments,
\* each with its original volume.
confirmed_before(verified) ==
    [i \in 1..Len(verified) |->
        [segment_id |-> verified[i].segment_id, final_food_name |-> "Paneer Curry",
         volume_litres |-> verified[i].original_volume_litres]]

\* Input documents: the keys present and the lists under them.  A document
\* has verified_volumes only, confirmed_results only, both, or neither.
InputDocs ==
    { [keys |-> {"verified_volumes"}, verified_volumes |-> l, confirmed_results |-> <<>>] :
        l \in VerifiedLists }
    \cup { [keys |-> {"confirmed_results"}, verified_volumes |-> <<>>, confirmed_results |-> l] :
             l \in ConfirmedLists }
    \cup { [keys |-> {"verified_volumes", "confirmed_results"},
            verified_volumes |-> l, confirmed_results |-> confirmed_before(l)] :
             l \in VerifiedLists }
    \cup { [keys |-> {}, verified_volumes |-> <<>>, confirmed_results |-> <<>>] }

\* The item built from one verified_volumes entry.
normalized_item(item) ==
    [segment_id |-> item.segment_id,
     final_food_name |-> item.food_name,
     volume_litres |-> item.suggested_volume_litres,
     volume_adjusted |-> item.adjustment_made,
     original_volume |-> item.original_volume_litres,
     verification_confidence |-> item.confidence]

\* Mutant of items_of: the two branches are tested in the other order.
items_of_confirmed_first(data) ==
    IF "confirmed_results" \in data.keys THEN data.confirmed_results
    ELSE IF "verified_volumes" \in data.keys
         THEN [i \in 1..Len(data.verified_volumes) |-> normalized_item(data.verified_volumes[i])]
         ELSE <<>>

\* The items process_json_file loops over: the branch is chosen by the keys
\* present, verified_volumes first.
items_of(data) ==
    IF "verified_volumes" \in data.keys
    THEN [i \in 1..Len(data.verified_volumes) |-> normalized_item(data.verified_volumes[i])]
    ELSE IF "confirmed_results" \in data.keys THEN data.confirmed_results
         ELSE <<>>

\* Neither key is present.
unrecognized(data) == data.keys \cap {"verified_volumes", "confirmed_results"} = {}

\* Answers of the complexity call (analyze_food_complexity's llm.invoke): it
\* raises, the answer does not parse, it parses without a "reasoning" key,
\* or it says simple or complex.
ComplexityAnswers == {"raise", "parse_error", "no_reasoning", "simple", "complex"}

\* The complexity step ends in an exception that nothing catches:
\* llm.invoke raised, or analysis['reasoning'] is a KeyError.
complexity_raises(complexity) == complexity \in {"raise", "no_reasoning"}

\* Ingredient entries the decomposition call may answer: a percentage and a
\* volume_litres (millilitres here); each volume is the percentage's share of
\* 200 ml, so it is the right share for a 200 ml segment and a wrong one for a
\* 400 ml segment.
ComponentAnswers ==
    { [percentage |-> 0,  volume_litres |-> RatInt(0)],
      [percentage |-> 45, volume_litres |-> RatInt(90)],
      [percentage |-> 55, volume_litres |-> RatInt(110)],
      [percentage |-> 56, volume_litres |-> RatInt(112)],
      [percentage |-> 65, volume_litres |-> RatInt(130)] }

\* Answers of the decomposition call: the call raises, the answer does not
\* parse, or it carries a list of zero, one or two ingredient entries.
GroupAnswers ==
    { <<>> } \cup { <<a>> : a \in ComponentAnswers }
             \cup { <<a, b>> : a \in ComponentAnswers, b \in ComponentAnswers }

DecompositionAnswers ==
    { [kind |-> "raise", ingredient_volumes |-> <<>>],
      [kind |-> "parse_error", ingredient_volumes |-> <<>>] }
    \cup { [kind |-> "json", ingredient_volumes |-> g] : g \in GroupAnswers }

\* total_pct = sum(ing['percentage'] for ing in result['ingredient_volumes'])
total_pct(group) == SumInts([i \in 1..Len(group) |-> group[i].percentage])

\* abs(total_pct - 100) > 1
needs_normalizing(total) == Abs(total - 100) > 1

\* Mutant of normalize: the volume is computed from the percentage as it was
\* before the rescaling.
normalize_stale_volume(group, total, volume_litres) ==
    [i \in 1..Len(group) |->
        [percentage |->
            RatMul(RatDiv(RatInt(group[i].percentage), RatInt(total)), RatInt(100)),
         volume_litres |->
            RatMul(RatDiv(RatInt(group[i].percentage), RatInt(100)), RatInt(volume_litres))]]

\* The normalising loop: every entry is rescaled and its volume recomputed.
normalize(group, total, volume_litres) ==
    [i \in 1..Len(group) |->
        LET pct == RatMul(RatDiv(RatInt(group[i].percentage), RatInt(total)), RatInt(100))
        IN  [percentage |-> pct,
             volume_litres |-> RatMul(RatDiv(pct, RatInt(100)), RatInt(volume_litres))]]

\* The entries as the answer gave them.
as_answered(group) ==
    [i \in 1..Len(group) |->
        [percentage |-> RatInt(group[i].percentage),
         volume_litres |-> group[i].volume_litres]]

\* decompose_complex_food after the call returned: None on any exception in
\* the try block (a parse error, a division by zero), else the result.
decompose_complex_food(answer, volume_litres) ==
    IF answer.kind = "parse_error" THEN None
    ELSE LET group == answer.ingredient_volumes
             total == total_pct(group)
         IN  IF needs_normalizing(total)
             THEN IF total = 0 /\ Len(group) > 0
                  THEN None    \* ZeroDivisionError, caught by the except
                  ELSE [kind |-> "result", is_basic_ingredient |-> FALSE,
                        ingredient_volumes |-> normalize(group, total, volume_litres)]
             ELSE [kind |-> "result", is_basic_ingredient |-> FALSE,
                   ingredient_volumes |-> as_answered(group)]

\* Mutant of simple_food: the record is not flagged as a basic ingredient.
simple_food_unflagged(volume_litres) ==
    [kind |-> "result", is_basic_ingredient |-> FALSE,
     ingredient_volumes |->
        << [percentage |-> RatInt(100), volume_litres |-> RatInt(volume_litres)] >>]

\* decompose_food's result for a simple food.
simple_food(volume_litres) ==
    [kind |-> "result", is_basic_ingredient |-> TRUE,
     ingredient_volumes |->
        << [percentage |-> RatInt(100), volume_litres |-> RatInt(volume_litres)] >>]

\* analyze_food_complexity's return: a parse error is answered as simple.
is_simple(complexity) == complexity \in {"simple", "parse_error"}

\* decompose_food, given the answers of the calls it makes.
decompose_food(complexity, answer, volume_litres) ==
    IF is_simple(complexity) THEN simple_food(volume_litres)
    ELSE decompose_complex_food(answer, volume_litres)

\* The calls decompose_food makes, in order.
calls_made(complexity) ==
    IF is_simple(complexity) THEN <<"analyze_food_complexity">>
    ELSE <<"analyze_food_complexity", "search_web", "decompose_complex_food">>

InitDecompose ==
    /\ IdleExcept("decompose")
    /\ d_data \in InputDocs
    /\ d_items = <<>>
    /\ d_idx = 0
    /\ d_results = <<>>
    /\ d_calls = <<>>
    /\ d_answer = None
    /\ d_pc = "read"
    /\ d_output = Missing

\* process_json_file up to its loop: the shape is detected and normalised.
process_json_file_read ==
    /\ d_pc = "read"
    /\ d_items' = items_of(d_data)
    /\ d_pc' = IF unrecognized(d_data)
              THEN "save"        \* return []
              ELSE "loop"
    /\ UNCHANGED <<d_data, d_idx, d_results, d_calls, d_answer, d_output>>
    /\ UNCHANGED notDecVars

\* One iteration of process_json_file's loop: decompose_food on the item,
\* the result appended when there is one.
process_json_file_item ==
    /\ d_pc = "loop"
    /\ d_idx < Len(d_items)
    /\ LET item == d_items[d_idx + 1] IN
       \E complexity \in ComplexityAnswers :
       \E answer \in DecompositionAnswers \cup {None} :
          \* the decomposition call is made for a complex food only
          /\ is_simple(complexity) \/ complexity_raises(complexity) => answer = None
          /\ ~(is_simple(complexity) \/ complexity_raises(complexity)) => answer # None
          /\ IF complexity_raises(complexity) \/ answer.kind = "raise"
             THEN \* raised outside every try: the stage dies
                  /\ d_pc' = "crashed"
                  /\ d_calls' = IF complexity_raises(complexity)
                                THEN <<"analyze_food_complexity">>
                                ELSE calls_made(complexity)
                  /\ d_answer' = answer
                  /\ UNCHANGED <<d_idx, d_results>>
             ELSE LET result == decompose_food(complexity, answer, item.volume_litres)
                  IN  /\ d_calls' = calls_made(complexity)
                      /\ d_answer' = answer
                      /\ d_idx' = d_idx + 1
                      /\ d_results' =
                            IF result # None
                            THEN Append(d_results,
                                        [segment_id |-> item.segment_id,
                                         is_basic_ingredient |-> result.is_basic_ingredient,
                                         ingredient_volumes |-> result.ingredient_volumes])
                            ELSE d_results
                      /\ d_pc' = IF d_idx + 1 = Len(d_items) THEN "save" ELSE "loop"
    /\ UNCHANGED <<d_data, d_items, d_output>>
    /\ UNCHANGED notDecVars

\* main after process_json_file returned: save_output, then exit status 0.
main_save_output ==
    /\ d_pc \in {"save", "loop"}
    /\ d_pc = "loop" => d_idx = Len(d_items)
    /\ d_output' = [decomposed_foods |-> d_results]
    /\ d_pc' = "exit0"
    /\ UNCHANGED <<d_data, d_items, d_idx, d_results, d_calls, d_answer>>
    /\ UNCHANGED notDecVars

NextDecompose ==
    \/ process_json_file_read
    \/ process_json_file_item
    \/ main_save_output

SpecDecompose == InitDecompose /\ [][NextDecompose]_vars

(***************************************************************************)
(* Agent 2: the mass stage.                                                *)
(***************************************************************************)
\* Ingredient volumes (1e-4 L) the input may carry: 0.0334 L and 0.2 L.
IngredientVolumes == {334, 2000}

\* Densities (1e-2 kg/L) an external answer may carry: 0.04, 0.05, 0.93,
\* 2.0 and 2.01 kg/L.
DensityAnswers == {4, 5, 93, 200, 201}

\* The sanity bounds 0.05 and 2.0 kg/L, and the default 1.0 kg/L.
MinDensity == 5
MaxDensity == 200
DefaultDensity == 100

Some(d) == [kind |-> "value", v |-> d]

\* Input documents: up to MaxFoods foods holding up to MaxIngredients
\* ingredient volumes in all; segment ids are 1..n.
FoodInputs ==
    { [f \in 1..n |->
          [segment_id |-> f,
           ingredient_volumes |-> [i \in 1..cnt[f] |-> vs[SumInts([g \in 1..(f-1) |-> cnt[g]]) + i]]]] :
        n \in 0..MaxFoods,
        cnt \in { c \in [1..MaxFoods -> 0..MaxIngredients] :
                    SumInts([g \in 1..MaxFoods |-> c[g]]) <= MaxIngredients },
        vs \in [1..MaxIngredients -> IngredientVolumes] }

\* Outcomes of the PDF strategy's external calls: the vector search or the
\* LLM call raises, the search yields no text, the answer does not parse,
\* the answer says not found, or it carries a density.
PdfAnswers ==
    { [kind |-> k, density |-> 0] : k \in {"raise", "no_context", "parse_error", "not_found"} }
    \cup { [kind |-> "found", density |-> d] : d \in DensityAnswers }

\* Outcomes of the web strategy's external calls.
WebAnswers ==
    { [kind |-> k, density |-> 0] : k \in {"raise", "no_results", "parse_error", "not_found"} }
    \cup { [kind |-> "found", density |-> d] : d \in DensityAnswers }

\* Outcomes of the estimate's LLM call: it raises, the answer does not
\* parse, it carries null for the density, or it carries a density.
EstimateAnswers ==
    { [kind |-> k, density |-> 0] : k \in {"raise", "parse_error", "null"} }
    \cup { [kind |-> "json", density |-> d] : d \in DensityAnswers }

\* Mutant of unrealistic: the comparisons are not strict, so the bounds
\* themselves are rejected.
unrealistic_at_bounds(density) == density >= MaxDensity \/ density <= MinDensity

\* if density > 2.0 or density < 0.05: rejected
unrealistic(density) == density > MaxDensity \/ density < MinDensity

\* search_density_in_pdf's return for an answer that did not raise.
search_density_in_pdf(answer) ==
    IF answer.kind = "found" /\ ~unrealistic(answer.density)
    THEN Some(answer.density)
    ELSE None

\* search_density_on_web's return; the whole body is inside its try.
search_density_on_web(answer) ==
    IF answer.kind = "found" /\ ~unrealistic(answer.density)
    THEN Some(answer.density)
    ELSE None

\* estimate_density's return for an answer that did not raise.
estimate_density(answer) ==
    IF answer.kind = "parse_error" THEN Some(DefaultDensity)
    ELSE IF answer.kind = "null" THEN None
    ELSE Some(answer.density)

\* Mutant of truthy: the early return of a found density is lost.
truthy_never(r) == FALSE

\* `if density:` in get_density_with_fallback
truthy(r) == r # None /\ r.v # 0

\* Python's round(x, 2) for x = n/10 hundredths: to the nearest hundredth,
\* a tie to the even one.
round2(n) ==
    LET q == n \div 10
        r == n % 10
    IN  IF r < 5 THEN q
        ELSE IF r > 5 THEN q + 1
        ELSE IF q % 2 = 0 THEN q ELSE q + 1

\* Mutant of mass_of: the conversion to grams (* 1000) is lost.
mass_of_kilograms(volume, density) == (volume * density) \div 1000

\* mass = volume_litres * density * 1000, in milligrams
mass_of(volume, density) == volume * density

\* Mutant of ingredient_mass: the strategy's name is not passed on and every
\* entry is labelled as an estimate.
ingredient_mass_unlabelled(volume, density, method) ==
    [volume_litres |-> volume,
     density_kg_per_L |-> density,
     mass_grams |-> round2(mass_of(volume, density)),
     method |-> "LLM_ESTIMATE"]

\* The entry calculate_mass_for_food appends for an ingredient.
ingredient_mass(volume, density, method) ==
    [volume_litres |-> volume,
     density_kg_per_L |-> density,
     mass_grams |-> round2(mass_of(volume, density)),
     method |-> method]

\* total_mass = sum(item['mass_grams'] ...); round(total_mass, 2)
total_mass_grams(masses) ==
    round2(10 * SumInts([i \in 1..Len(masses) |-> masses[i].mass_grams]))

\* The record calculate_mass_for_food returns.
mass_record(food, masses) ==
    [segment_id |-> food.segment_id,
     total_mass_grams |-> total_mass_grams(masses),
     ingredient_masses |-> masses]

InitMass ==
    /\ IdleExcept("mass")
    /\ m_foods \in FoodInputs
    /\ m_food = 0
    /\ m_masses = <<>>
    /\ m_calls = <<>>
    /\ m_pc = "food"
    /\ m_results = <<>>
    /\ m_output = Missing

CurrentFood == m_foods[m_food + 1]
CurrentVolume == CurrentFood.ingredient_volumes[Len(m_masses) + 1]

\* get_density_with_fallback returned (density, mass, method, details):
\* calculate_mass_for_food appends the entry and, after the last ingredient,
\* returns the food's record, which process_agent1_output appends.
resolved(density, method) ==
    LET masses == Append(m_masses, ingredient_mass(CurrentVolume, density, method))
    IN  IF Len(masses) = Len(CurrentFood.ingredient_volumes)
        THEN /\ m_results' = Append(m_results, mass_record(CurrentFood, masses))
             /\ m_masses' = <<>>
             /\ m_food' = m_food + 1
             /\ m_pc' = "food"
        ELSE /\ m_masses' = masses
             /\ m_pc' = "pdf"
             /\ UNCHANGED <<m_results, m_food>>

\* process_agent1_output takes the next food; calculate_mass_for_food starts.
\* A food without ingredients gets its record at once.
calculate_mass_for_food_begin ==
    /\ m_pc = "food"
    /\ m_food < Len(m_foods)
    /\ m_calls' = <<>>
    /\ IF Len(CurrentFood.ingredient_volumes) = 0
       THEN /\ m_results' = Append(m_results, mass_record(CurrentFood, <<>>))
            /\ m_food' = m_food + 1
            /\ UNCHANGED <<m_masses, m_pc>>
       ELSE /\ m_masses' = <<>>
            /\ m_pc' = "pdf"
            /\ UNCHANGED <<m_results, m_food>>
    /\ UNCHANGED <<m_foods, m_output>>
    /\ UNCHANGED notMassVars

\* get_density_with_fallback, step 1: the PDF strategy.
step_pdf ==
    /\ m_pc = "pdf"
    /\ \E answer \in PdfAnswers :
          IF answer.kind = "raise"
          THEN \* the search and the LLM call are outside the try
               /\ m_calls' = <<[call |-> "search_density_in_pdf", answer |-> answer,
                               returned |-> [kind |-> "raised"]]>>
               /\ m_pc' = "crashed"
               /\ UNCHANGED <<m_masses, m_results, m_food>>
          ELSE LET density == search_density_in_pdf(answer) IN
               /\ m_calls' = <<[call |-> "search_density_in_pdf", answer |-> answer,
                               returned |-> density]>>
               /\ IF truthy(density)
                  THEN resolved(density.v, "PDF_RAG")
                  ELSE /\ m_pc' = "web"
                       /\ UNCHANGED <<m_masses, m_results, m_food>>
    /\ UNCHANGED <<m_foods, m_output>>
    /\ UNCHANGED notMassVars

\* get_density_with_fallback, step 2: the web strategy.
step_web ==
    /\ m_pc = "web"
    /\ \E answer \in WebAnswers :
          LET density == search_density_on_web(answer) IN
          /\ m_calls' = Append(m_calls, [call |-> "search_density_on_web", answer |-> answer,
                                         returned |-> density])
          /\ IF truthy(density)
             THEN resolved(density.v, "WEB_SEARCH")
             ELSE /\ m_pc' = "estimate"
                  /\ UNCHANGED <<m_masses, m_results, m_food>>
    /\ UNCHANGED <<m_foods, m_output>>
    /\ UNCHANGED notMassVars

\* get_density_with_fallback, step 3: the estimate.
step_estimate ==
    /\ m_pc = "estimate"
    /\ \E answer \in EstimateAnswers :
          IF answer.kind = "raise"
          THEN \* the LLM call is outside the try
               /\ m_calls' = Append(m_calls, [call |-> "estimate_density", answer |-> answer,
                                              returned |-> [kind |-> "raised"]])
               /\ m_pc' = "crashed"
               /\ UNCHANGED <<m_masses, m_results, m_food>>
          ELSE LET density == estimate_density(answer) IN
               /\ m_calls' = Append(m_calls, [call |-> "estimate_density", answer |-> answer,
                                              returned |-> density])
               /\ IF density = None
                  THEN \* volume_litres * None raises TypeError
                       /\ m_pc' = "crashed"
                       /\ UNCHANGED <<m_masses, m_results, m_food>>
                  ELSE resolved(density.v, "LLM_ESTIMATE")
    /\ UNCHANGED <<m_foods, m_output>>
    /\ UNCHANGED notMassVars

\* main after process_agent1_output returned: save_output, exit status 0.
mass_save_output ==
    /\ m_pc = "food"
    /\ m_food = Len(m_foods)
    /\ m_output' = m_results
    /\ m_pc' = "exit0"
    /\ UNCHANGED <<m_foods, m_food, m_masses, m_calls, m_results>>
    /\ UNCHANGED notMassVars

NextMass ==
    \/ calculate_mass_for_food_begin
    \/ step_pdf
    \/ step_web
    \/ step_estimate
    \/ mass_save_output

SpecMass == InitMass /\ [][NextMass]_vars

(***************************************************************************)
(* Agent 3: the nutrition stage.                                           *)
(***************************************************************************)
\* A JSON value: a key that is absent, null, or a number.
Absent == [t |-> "absent"]
Null == [t |-> "null"]
Num(x) == [t |-> "num", v |-> x]

Nutrients == {"calories_kcal", "protein_g", "fat_g", "carbohydrates_g"}

\* total_mass_grams values (centigrams) the input may carry: 33.33 g, 100 g.
MassSet == {3333, 10000}

\* serving_size_grams values a found source may carry: none, null,
\* -100 g, 0 g, 100 g.
ServingAnswers == {Absent, Null, Num(-10000), Num(0), Num(10000)}

\* Per-serving values (hundredths) a found source may carry:
\* 130 kcal, 2.7 g, 0.3 g, 28.17 g.
BaseValue(key) ==
    CASE key = "calories_kcal" -> 13000
      [] key = "protein_g" -> 270
      [] key = "fat_g" -> 30
      [] key = "carbohydrates_g" -> 2817

\* Per-serving values with three decimals (thousandths) a found source may
\* carry: 130.006 kcal, 2.706 g, 0.306 g, 28.176 g.
FineValue(key) == 10 * BaseValue(key) + 6

\* A JSON number with three decimals, in thousandths.
Milli(x) == [t |-> "milli", v |-> x]

\* The sources a lookup may find: every nutrient a number of two decimals,
\* or one of them absent, null or a number of three decimals, or every
\* nutrient the number 0 (a food without calories).
SourceAnswers ==
    { [serving_size_grams |-> sv, nutrients |-> nu] :
        sv \in ServingAnswers,
        nu \in { f \in [Nutrients -> {"absent", "null", "num", "fine"}] :
                    Cardinality({k \in Nutrients : f[k] # "num"}) <= 1 }
               \cup { [k \in Nutrients |-> "zero"] } }

\* The value a source holds under a nutrient key.
source_value(source, key) ==
    CASE source.nutrients[key] = "absent" -> Absent
      [] source.nutrients[key] = "null" -> Null
      [] source.nutrients[key] = "num" -> Num(BaseValue(key))
      [] source.nutrients[key] = "zero" -> Num(0)
      [] source.nutrients[key] = "fine" -> Milli(FineValue(key))

\* search_nutrition_on_web's return: None (nothing found, or any error of
\* the search and the extraction, all caught) or the source found.
NutritionAnswers ==
    { None } \cup { [kind |-> "found", source |-> src] : src \in SourceAnswers }

\* Input documents: segment ids are 1..n.
MassInputs ==
    { [i \in 1..n |-> [segment_id |-> i, total_mass_grams |-> ms[i]]] :
        n \in 0..MaxSegments, ms \in [1..MaxSegments -> MassSet] }

\* Mutant of round_div: the quotient is truncated instead of rounded.
round_div_truncating(n, d) == n \div d

\* Python's round(n/d, ...) to the nearest unit of the grid, d > 0, a tie
\* to the even one.
round_div(n, d) ==
    LET q == n \div d
        r == n % d
    IN  IF 2 * r < d THEN q
        ELSE IF 2 * r > d THEN q + 1
        ELSE IF q % 2 = 0 THEN q ELSE q + 1

\* final_nutrition before scaling
zero_nutrition == [k \in Nutrients |-> 0]

\* Mutant of serving_usable: the guard admits a serving size of zero.
serving_usable_or_zero(serving_size) == serving_size >= 0

\* nutrition_per_serving.get("serving_size_grams") > 0, for a number
serving_usable(serving_size) == serving_size > 0

\* Mutant of scaled_nutrient: the scaling factor is inverted
\* (serving_size / total_mass).
scaled_nutrient_inverted(value, total_mass, serving_size) ==
    CASE value = Absent -> 0
      [] value = Null -> 0
      [] value.t = "milli" -> round_div(value.v * serving_size, 10 * total_mass)
      [] OTHER -> round_div(value.v * serving_size, total_mass)

\* base_value = nutrition_per_serving.get(key, 0); unless it is None,
\* final_nutrition[key] = round(base_value * scaling_factor, 2)
scaled_nutrient(value, total_mass, serving_size) ==
    CASE value = Absent -> round_div(0 * total_mass, serving_size)
      [] value = Null -> 0
      [] value.t = "milli" -> round_div(value.v * total_mass, 10 * serving_size)
      [] OTHER -> round_div(value.v * total_mass, serving_size)

\* The scaling loop over the keys of final_nutrition.
scaled_nutrition(source, total_mass, serving_size) ==
    [k \in Nutrients |-> scaled_nutrient(source_value(source, k), total_mass, serving_size)]

\* The outcome of one loop iteration of process_agent2_output:
\* "TypeError" when None is compared with 0, "ZeroDivisionError" when the
\* scaling factor divides by zero, else the segment's calculated_nutrition.
segment_nutrition(answer, total_mass) ==
    IF answer = None THEN [kind |-> "ok", nutrition |-> zero_nutrition]
    ELSE LET serving == answer.source.serving_size_grams IN
         IF serving \in {Absent, Null}
         THEN [kind |-> "TypeError", nutrition |-> zero_nutrition]
         ELSE IF serving_usable(serving.v)
              THEN IF serving.v = 0
                   THEN [kind |-> "ZeroDivisionError", nutrition |-> zero_nutrition]
                   ELSE [kind |-> "ok",
                         nutrition |-> scaled_nutrition(answer.source, total_mass, serving.v)]
              ELSE [kind |-> "ok", nutrition |-> zero_nutrition]

\* Mutant of processed_segment: the source found is not kept in the record.
processed_segment_without_source(food_item, final_nutrition, nutrition_per_serving) ==
    [segment_id |-> food_item.segment_id,
     total_mass_grams |-> food_item.total_mass_grams,
     calculated_nutrition |-> final_nutrition,
     source_data |-> None]

\* The record process_agent2_output appends for a segment.
processed_segment(food_item, final_nutrition, nutrition_per_serving) ==
    [segment_id |-> food_item.segment_id,
     total_mass_grams |-> food_item.total_mass_grams,
     calculated_nutrition |-> final_nutrition,
     source_data |-> nutrition_per_serving]

\* The keys of total_nutrition, and the nutrient key k with
\* f"total_{k}" equal to the total key.
TotalKeys ==
    {"total_calories_kcal", "total_protein_g", "total_fat_g", "total_carbohydrates_g"}

nutrient_of(total_key) ==
    CASE total_key = "total_calories_kcal" -> "calories_kcal"
      [] total_key = "total_protein_g" -> "protein_g"
      [] total_key = "total_fat_g" -> "fat_g"
      [] total_key = "total_carbohydrates_g" -> "carbohydrates_g"

\* Mutant of calculate_totals: the loop assigns instead of accumulating, so
\* each total is the last segment's value.
calculate_totals_overwrite(segments) ==
    [t \in TotalKeys |->
        IF segments = <<>> THEN 0
        ELSE round2(10 * segments[Len(segments)].calculated_nutrition[nutrient_of(t)])]

\* calculate_totals: the sums per key, each rounded to two decimals.
calculate_totals(segments) ==
    [t \in TotalKeys |->
        round2(10 * SumInts([i \in 1..Len(segments) |->
                                segments[i].calculated_nutrition[nutrient_of(t)]]))]

InitNutrition ==
    /\ IdleExcept("nutrition")
    /\ n_masses \in MassInputs
    /\ n_idx = 0
    /\ n_segments = <<>>
    /\ n_pc = "loop"
    /\ n_output = Missing

\* One iteration of process_agent2_output's loop.
process_agent2_output_item ==
    /\ n_pc = "loop"
    /\ n_idx < Len(n_masses)
    /\ LET food_item == n_masses[n_idx + 1] IN
       \E answer \in NutritionAnswers :
          LET out == segment_nutrition(answer, food_item.total_mass_grams) IN
          IF out.kind = "ok"
          THEN /\ n_segments' = Append(n_segments,
                                   processed_segment(food_item, out.nutrition, answer))
               /\ n_idx' = n_idx + 1
               /\ UNCHANGED n_pc
          ELSE \* the exception leaves process_agent2_output and main
               /\ n_pc' = out.kind
               /\ UNCHANGED <<n_segments, n_idx>>
    /\ UNCHANGED <<n_masses, n_output>>
    /\ UNCHANGED notNutVars

\* main after the loop: calculate_totals, save_output, exit status 0.
nutrition_save_output ==
    /\ n_pc = "loop"
    /\ n_idx = Len(n_masses)
    /\ n_output' = [nutritional_breakdown_per_segment |-> n_segments,
                    total_nutrition_summary |-> calculate_totals(n_segments)]
    /\ n_pc' = "exit0"
    /\ UNCHANGED <<n_masses, n_idx, n_segments>>
    /\ UNCHANGED notNutVars

NextNutrition ==
    \/ process_agent2_output_item
    \/ nutrition_save_output

SpecNutrition == InitNutrition /\ [][NextNutrition]_vars

(***************************************************************************)
(* The pipeline runner (calai.py).  A stage is a subprocess; the runner    *)
(* sees its exit status only.                                              *)
(***************************************************************************)
Stages == 1..5

\* The file each stage writes before it ends with exit status 0.
OutputFile(stage) ==
    CASE stage = 1 -> "final_confirmed_output.json"
      [] stage = 2 -> "verified_volumes.json"
      [] stage = 3 -> "agent1_output.json"
      [] stage = 4 -> "agent2_output.json"
      [] stage = 5 -> "agent3_output.json"

OutputFiles == { OutputFile(k) : k \in Stages }

\* The ways a stage's process can end: with status 1 and nothing written
\* (sys.exit(1), or an exception nothing catches), or, when the file it
\* reads is there, with status 0 after writing its output file.
StageOutcomes(stage, disk) ==
    { [status |-> 1, wrote |-> FALSE] }
    \cup IF stage = 1 \/ OutputFile(stage - 1) \in disk
         THEN { [status |-> 0, wrote |-> TRUE] }
         ELSE {}

\* Mutant of after_step: the exit status is not looked at (check=False).
after_step_unchecked(stage, status) ==
    IF stage = 5 THEN "confirm" ELSE "step"

\* subprocess.run(..., check=True): a non-zero status raises
\* CalledProcessError, whose handler exits with status 1.
after_step(stage, status) ==
    IF status # 0 THEN "exit1"
    ELSE IF stage = 5 THEN "confirm" ELSE "step"

InitRunner ==
    /\ IdleExcept("runner")
    /\ r_args \in 0..2
    /\ r_python \in BOOLEAN
    /\ r_disk \in SUBSET OutputFiles
    /\ r_written = {}
    /\ r_started = <<>>
    /\ r_log = <<>>
    /\ r_pc = "start"

\* main without an image path: the usage message, exit status 1.
calai_usage ==
    /\ r_pc = "start"
    /\ r_args < 1
    /\ r_pc' = "exit1"
    /\ UNCHANGED <<r_args, r_python, r_disk, r_written, r_started, r_log>>
    /\ UNCHANGED notRunVars

\* main with an image path enters the try block.
calai_begin ==
    /\ r_pc = "start"
    /\ r_args >= 1
    /\ r_pc' = "step"
    /\ UNCHANGED <<r_args, r_python, r_disk, r_written, r_started, r_log>>
    /\ UNCHANGED notRunVars

\* The next step's command is built and printed and its subprocess is
\* started.  Step 5's command holds session_folder, which is None when no
\* second argument was given: joining it raises TypeError.  A missing
\* executable raises FileNotFoundError.  Either handler exits with status 1.
calai_run_step ==
    /\ r_pc = "step"
    /\ LET stage == Len(r_log) + 1 IN
       IF (stage = 5 /\ r_args < 2) \/ ~r_python
       THEN /\ r_pc' = "exit1"
            /\ UNCHANGED r_started
       ELSE /\ r_started' = Append(r_started, stage)
            /\ r_pc' = "running"
    /\ UNCHANGED <<r_args, r_python, r_disk, r_written, r_log>>
    /\ UNCHANGED notRunVars

\* The running stage ends; subprocess.run returns or raises.
calai_step_completes ==
    /\ r_pc = "running"
    /\ LET stage == r_started[Len(r_started)] IN
       \E outcome \in StageOutcomes(stage, r_disk) :
          /\ r_log' = Append(r_log, [stage |-> stage, status |-> outcome.status])
          /\ r_disk' = IF outcome.wrote THEN r_disk \cup {OutputFile(stage)} ELSE r_disk
          /\ r_written' = IF outcome.wrote THEN r_written \cup {OutputFile(stage)}
                                            ELSE r_written
          /\ r_pc' = after_step(stage, outcome.status)
    /\ UNCHANGED <<r_args, r_python, r_started>>
    /\ UNCHANGED notRunVars

\* The success message and the final confirmation print; exit status 0.
calai_final_confirmation ==
    /\ r_pc = "confirm"
    /\ r_pc' = "exit0"
    /\ UNCHANGED <<r_args, r_python, r_disk, r_written, r_started, r_log>>
    /\ UNCHANGED notRunVars

NextRunner ==
    \/ calai_usage
    \/ calai_begin
    \/ calai_run_step
    \/ calai_step_completes
    \/ calai_final_confirmation

SpecRunner == InitRunner /\ [][NextRunner]_vars

(***************************************************************************)
(* The dialogue step (agents/dialogue_agent.py, confirm_analysis).         *)
(* Confidence is in hundredths.  A food name is a pair: how the name came  *)
(* about and the segment it was given for.                                 *)
(***************************************************************************)
MaxDialogueSegments == 4

\* max_questions
MaxQuestions == 3

\* most_important_question values: none, blanks only, a question.
EmptyQuestion == ""
BlankQuestion == "   "
AQuestion == "Is this paneer or tofu?"

\* q.strip() is the empty string
strips_to_empty(q) == q \in {EmptyQuestion, BlankQuestion}

\* The segments the identification step may hand over, by kind.
SegmentKinds == {"unsure", "sure", "boundary", "flagged", "uncertain", "blank"}

SegmentOf(i, kind) ==
    [segment_id |-> i,
     food_name |-> <<"vlm", i>>,
     confidence |-> CASE kind \in {"unsure", "blank"} -> 80
                      [] kind = "boundary" -> 95
                      [] OTHER -> 97,
     ambiguity_flag |-> (kind = "flagged"),
     major_uncertainties |-> IF kind = "uncertain" THEN <<"paneer or tofu">> ELSE <<>>,
     most_important_question |-> CASE kind = "sure" -> EmptyQuestion
                                   [] kind = "blank" -> BlankQuestion
                                   [] OTHER -> AQuestion,
     volume |-> 200]

\* analysis_results: segment ids 1..n, at most one segment of a kind other
\* than "unsure".
AnalysisResults ==
    { [i \in 1..n |-> SegmentOf(i, kinds[i])] :
        n \in 0..MaxDialogueSegments,
        kinds \in { f \in [1..MaxDialogueSegments -> SegmentKinds] :
                       Cardinality({i \in 1..MaxDialogueSegments : f[i] # "unsure"}) <= 1 } }

\* needs_clarification
needs_clarification(seg) ==
    \/ seg.ambiguity_flag
    \/ seg.confidence < 95
    \/ Len(seg.major_uncertainties) > 0

\* The question a segment contributes to all_questions.
question_of(seg) ==
    [segment_id |-> seg.segment_id,
     food_name |-> seg.food_name,
     question |-> seg.most_important_question,
     confidence |-> seg.confidence]

RECURSIVE all_questions(_)
\* STEP 1: the questions collected over the segments, in order.
all_questions(segments) ==
    IF segments = <<>> THEN <<>>
    ELSE LET seg == Head(segments)
             rest == all_questions(Tail(segments))
         IN  IF needs_clarification(seg)
                /\ seg.most_important_question # EmptyQuestion
                /\ ~strips_to_empty(seg.most_important_question)
             THEN <<question_of(seg)>> \o rest
             ELSE rest

\* An id the ranking call may name although no candidate has it.
ForeignId == 99

\* Answers of the ranking call: it raises, its answer does not parse, or it
\* names a list of ids (only membership in the list is used).
RankingAnswers(ids) ==
    { [kind |-> "raise", selected_segment_ids |-> {}],
      [kind |-> "parse_error", selected_segment_ids |-> {}] }
    \cup { [kind |-> "json", selected_segment_ids |-> S] : S \in SUBSET (ids \cup {ForeignId}) }

\* Mutant of first: the slice takes the last n entries (q[-n:]).
first_from_end(s, n) == SubSeq(s, IF Len(s) < n THEN 1 ELSE Len(s) - n + 1, Len(s))

\* The first n entries of a list (q[:n]).
first(s, n) == SubSeq(s, 1, IF Len(s) < n THEN Len(s) ELSE n)

\* [q for q in all_questions if q['segment_id'] in selected_ids]
filter_by_ids(questions, ids) ==
    LET chosen(q) == q.segment_id \in ids
    IN  SelectSeq(questions, chosen)

\* _select_top_questions, given the ranking call's answer.
select_top_questions(questions, ranking) ==
    IF questions = <<>> THEN <<>>
    ELSE IF Len(questions) <= MaxQuestions THEN questions
    ELSE IF ranking.kind = "json"
         THEN first(filter_by_ids(questions, ranking.selected_segment_ids), MaxQuestions)
         ELSE first(questions, MaxQuestions)

\* What _get_user_input may return: nothing typed, or an answer.
UserInputs == {"", "paneer, not tofu"}

\* A key of the parsing call's answers object: a numeral, or other text.
\* int(key) is the number for a numeral and raises ValueError otherwise.
AnswerKeys(ids) == { Num(i) : i \in ids } \cup { [t |-> "text"] }

\* Answers of the parsing call: it raises, its answer does not parse, or it
\* holds an answers object: per key nothing, null, or an answer.
ParsingAnswers(ids) ==
    { [kind |-> "raise", answers |-> <<>>] }
    \cup { [kind |-> "json", answers |-> a] :
             a \in UNION { [K -> {"null", "answer"}] : K \in SUBSET AnswerKeys(ids) } }

\* _parse_bulk_answers: {int(k): v for k, v in answers if v}, {} on any
\* exception.
parse_bulk_answers(parsing) ==
    IF parsing.kind = "raise" THEN <<>>
    ELSE LET kept == { k \in DOMAIN parsing.answers : parsing.answers[k] = "answer" }
         IN  IF \E k \in kept : k.t # "num"
             THEN <<>>      \* ValueError from int(k)
             ELSE [i \in { k.v : k \in kept } |-> "paneer, not tofu"]

\* question_was_asked
question_was_asked(selected, seg_id) ==
    \E i \in 1..Len(selected) : selected[i].segment_id = seg_id

\* Mutant of uses_answer: an answer is used whether or not the question
\* was asked.
uses_answer_unasked(has_answer, was_asked) == has_answer

\* if user_answer and question_was_asked
uses_answer(has_answer, was_asked) == has_answer /\ was_asked

\* _call_synthesizer's return: the synthesised name and clarifications, or
\* on any exception the name with the answer appended.
call_synthesizer(seg, user_answer, outcome) ==
    [food_name |-> IF outcome = "raise" THEN <<"vlm+answer", seg.segment_id>>
                                        ELSE <<"synthesised", seg.segment_id>>,
     volume_litres |-> seg.volume,
     clarifications |-> IF outcome = "raise" THEN {} ELSE {"type"},
     user_response |-> Some(user_answer),
     questions_asked |-> <<seg.most_important_question>>]

\* The branch taken when no answer is used.
original_spec(seg) ==
    [food_name |-> seg.food_name,
     volume_litres |-> seg.volume,
     clarifications |-> {},
     user_response |-> None,
     questions_asked |-> <<>>]

\* One entry of final_results.
final_result(seg, final_spec) ==
    [segment_id |-> seg.segment_id,
     final_food_name |-> final_spec.food_name,
     volume_litres |-> final_spec.volume_litres,
     clarifications |-> final_spec.clarifications,
     user_response |-> final_spec.user_response,
     questions_asked |-> final_spec.questions_asked]

\* STEP 5 for one segment; outcomes holds the synthesiser's outcome for the
\* segments it is called for.
merged(seg, selected, answers, outcomes) ==
    IF uses_answer(seg.segment_id \in DOMAIN answers, question_was_asked(selected, seg.segment_id))
    THEN final_result(seg, call_synthesizer(seg, answers[seg.segment_id],
                                            outcomes[seg.segment_id]))
    ELSE final_result(seg, original_spec(seg))

\* The segments the synthesiser is called for.
synthesised_ids(segments, selected, answers) ==
    { segments[i].segment_id : i \in { j \in 1..Len(segments) :
        uses_answer(segments[j].segment_id \in DOMAIN answers,
                    question_was_asked(selected, segments[j].segment_id)) } }

\* Answers of the refinement call: it raises, or it marks no segment, one
\* segment or every segment as changed.
RefinementAnswers(ids) ==
    { [kind |-> "raise", changed |-> {}] }
    \cup { [kind |-> "json", changed |-> S] :
             S \in { T \in SUBSET (ids \cup {ForeignId}) : Cardinality(T) <= 1 \/ T = ids } }

\* A result with the additional_suggestions key set.
with_suggestions(r, name, suggestions) ==
    [segment_id |-> r.segment_id,
     final_food_name |-> name,
     volume_litres |-> r.volume_litres,
     clarifications |-> r.clarifications,
     user_response |-> r.user_response,
     questions_asked |-> r.questions_asked,
     additional_suggestions |-> suggestions]

\* _refine_with_suggestions
refine_with_suggestions(results, refinement, suggestions) ==
    [i \in 1..Len(results) |->
        IF refinement.kind = "raise"
        THEN with_suggestions(results[i], results[i].final_food_name, suggestions)
        ELSE IF results[i].segment_id \in refinement.changed
             THEN with_suggestions(results[i], <<"refined", results[i].segment_id>>, suggestions)
             ELSE results[i]]

ids_of(records) == { records[i].segment_id : i \in 1..Len(records) }

InitDialogue ==
    /\ IdleExcept("dialogue")
    /\ q_segments \in AnalysisResults
    /\ q_questions = <<>>
    /\ q_ranking = None
    /\ q_selected = <<>>
    /\ q_bulk = None
    /\ q_answers = <<>>
    /\ q_results = <<>>
    /\ q_additional = None
    /\ q_pc = "collect"

\* STEP 1: the questions of all segments are collected.
confirm_analysis_collect ==
    /\ q_pc = "collect"
    /\ q_questions' = all_questions(q_segments)
    /\ q_pc' = "select"
    /\ UNCHANGED <<q_segments, q_ranking, q_selected, q_bulk, q_answers, q_results, q_additional>>
    /\ UNCHANGED notDlgVars

\* STEP 2: _select_top_questions; the ranking call is made only for more
\* candidates than max_questions.
confirm_analysis_select ==
    /\ q_pc = "select"
    /\ IF Len(q_questions) > MaxQuestions
       THEN \E ranking \in RankingAnswers(ids_of(q_questions)) :
               /\ q_ranking' = ranking
               /\ q_selected' = select_top_questions(q_questions, ranking)
       ELSE /\ q_ranking' = None
            /\ q_selected' = select_top_questions(q_questions, None)
    /\ q_pc' = "ask"
    /\ UNCHANGED <<q_segments, q_questions, q_bulk, q_answers, q_results, q_additional>>
    /\ UNCHANGED notDlgVars

\* STEP 4: the selected questions are asked at once and the answer parsed.
confirm_analysis_ask ==
    /\ q_pc = "ask"
    /\ IF q_selected # <<>>
       THEN \E bulk_answer \in UserInputs :
               /\ q_bulk' = Some(bulk_answer)
               /\ IF bulk_answer # ""
                  THEN \E parsing \in ParsingAnswers(ids_of(q_segments)) :
                          q_answers' = parse_bulk_answers(parsing)
                  ELSE q_answers' = <<>>
       ELSE UNCHANGED <<q_bulk, q_answers>>
    /\ q_pc' = "merge"
    /\ UNCHANGED <<q_segments, q_questions, q_ranking, q_selected, q_results, q_additional>>
    /\ UNCHANGED notDlgVars

\* STEP 5: one final result per segment.
confirm_analysis_merge ==
    /\ q_pc = "merge"
    /\ \E outcomes \in [synthesised_ids(q_segments, q_selected, q_answers) -> {"json", "raise"}] :
          q_results' = [i \in 1..Len(q_segments) |->
                           merged(q_segments[i], q_selected, q_answers, outcomes)]
    /\ q_pc' = "suggest"
    /\ UNCHANGED <<q_segments, q_questions, q_ranking, q_selected, q_bulk, q_answers, q_additional>>
    /\ UNCHANGED notDlgVars

\* STEP 6 and the return: additional suggestions refine the results.
confirm_analysis_suggest ==
    /\ q_pc = "suggest"
    /\ \E additional_suggestions \in UserInputs :
          /\ q_additional' = Some(additional_suggestions)
          /\ IF additional_suggestions # ""
             THEN \E refinement \in RefinementAnswers(ids_of(q_results)) :
                     q_results' = refine_with_suggestions(q_results, refinement,
                                                          additional_suggestions)
             ELSE UNCHANGED q_results
    /\ q_pc' = "returned"
    /\ UNCHANGED <<q_segments, q_questions, q_ranking, q_selected, q_bulk, q_answers>>
    /\ UNCHANGED notDlgVars

NextDialogue ==
    \/ confirm_analysis_collect
    \/ confirm_analysis_select
    \/ confirm_analysis_ask
    \/ confirm_analysis_merge
    \/ confirm_analysis_suggest

SpecDialogue == InitDialogue /\ [][NextDialogue]_vars

(***************************************************************************)
(* The router (router_agent.py, process_request).                          *)
(***************************************************************************)
MaxHistory == 2

\* A string value.
Str(s) == [kind |-> "str", s |-> s]

\* user_query: None, the empty string, or a question.
Queries == {None, Str(""), Str("How many calories?")}

\* not user_query
no_query(user_query) == user_query = None \/ user_query.s = ""

\* A message of the conversation history: its role and the process that
\* appended it.
Message(role, by) == [role |-> role, by |-> by]

\* The messages of earlier turns.
EarlierMessages ==
    UNION { [1..n -> { Message(r, "earlier") : r \in {"user", "assistant"} }] :
                n \in 0..MaxHistory }

\* Answers of the classifier call in decide_workflow: it raises, its text
\* does not parse, or it is a JSON object with or without the keys agent
\* and reasoning.
ClassifierAnswers ==
    { [kind |-> "raise", agent |-> "absent", reasoning |-> FALSE],
      [kind |-> "parse_error", agent |-> "absent", reasoning |-> FALSE] }
    \cup { [kind |-> "json", agent |-> a, reasoning |-> r] :
             a \in {"CALORIE_MODEL", "CONVERSATIONAL_VLM", "NUTRITIONIST", "absent"},
             r \in BOOLEAN }

\* decide_workflow's return once the call has returned.
decide_workflow(answer, user_query, has_image) ==
    IF answer.kind = "parse_error"
    THEN IF has_image /\ no_query(user_query)
         THEN [agent |-> "CALORIE_MODEL", reasoning |-> TRUE]
         ELSE [agent |-> "CONVERSATIONAL_VLM", reasoning |-> TRUE]
    ELSE [agent |-> answer.agent, reasoning |-> answer.reasoning]

\* Mutant of route: the no-image override is missing.
route_without_image_override(user_query, has_image) ==
    IF no_query(user_query) /\ has_image THEN "CALORIE_MODEL"
    ELSE "decide_workflow"

\* The if/elif/else that decides the workflow: an agent named outright, or
\* the classifier.
route(user_query, has_image) ==
    IF no_query(user_query) /\ has_image THEN "CALORIE_MODEL"
    ELSE IF ~has_image THEN "CONVERSATIONAL_VLM"
    ELSE "decide_workflow"

\* The ways call_calorie_model ends.
CalorieOutcomes == {"success", "no_output_file", "timeout", "failed"}

\* The ways call_conversational_vlm ends.
ConversationalOutcomes == {"success", "failed", "timeout"}

InitRouter ==
    /\ IdleExcept("router")
    /\ t_query \in Queries
    /\ t_image \in BOOLEAN
    /\ t_history \in EarlierMessages
    /\ t_calls = <<>>
    /\ t_decision = None
    /\ t_result = None
    /\ t_pc = "start"

\* process_request up to the decision: the user message is saved and the
\* workflow decided.  An exception of the classifier call, or a decision
\* without agent or reasoning (KeyError), leaves process_request.
process_request_route ==
    /\ t_pc = "start"
    /\ t_history' = Append(t_history, Message("user", "router"))
    /\ LET routed == route(t_query, t_image) IN
       IF routed # "decide_workflow"
       THEN /\ t_decision' = [agent |-> routed, reasoning |-> TRUE]
            /\ t_pc' = "dispatch"
            /\ UNCHANGED t_calls
       ELSE \E answer \in ClassifierAnswers :
               /\ t_calls' = Append(t_calls, "decide_workflow")
               /\ IF answer.kind = "raise"
                  THEN /\ t_pc' = "raised"
                       /\ UNCHANGED t_decision
                  ELSE LET decision == decide_workflow(answer, t_query, t_image) IN
                       /\ t_decision' = decision
                       /\ t_pc' = IF decision.agent = "absent" \/ ~decision.reasoning
                                  THEN "raised"
                                  ELSE "dispatch"
    /\ UNCHANGED <<t_query, t_image, t_result>>
    /\ UNCHANGED notRtVars

\* process_request after the decision: the agent is called and the
\* assistant message saved.  A successful conversational_vlm.py appends a
\* user and an assistant message to the same history file before the
\* router appends its own.
process_request_dispatch ==
    /\ t_pc = "dispatch"
    /\ IF t_decision.agent = "CALORIE_MODEL"
       THEN IF ~t_image
            THEN /\ t_result' = [error |-> TRUE, success |-> FALSE]
                 /\ t_history' = Append(t_history, Message("assistant", "router"))
                 /\ UNCHANGED t_calls
            ELSE \E outcome \in CalorieOutcomes :
                    /\ t_calls' = Append(t_calls, "call_calorie_model")
                    /\ t_result' = [error |-> FALSE, success |-> (outcome = "success")]
                    /\ t_history' = Append(t_history, Message("assistant", "router"))
       ELSE \E outcome \in ConversationalOutcomes :
               \* a query of None makes the command list unusable: the
               \* subprocess is not started and the call reports an error
               /\ (t_query = None => outcome = "failed")
               /\ t_calls' = Append(t_calls, "call_conversational_vlm")
               /\ t_result' = [error |-> FALSE, success |-> (outcome = "success")]
               /\ t_history' =
                     IF outcome = "success"
                     THEN t_history \o <<Message("user", "conversational_vlm"),
                                         Message("assistant", "conversational_vlm"),
                                         Message("assistant", "router")>>
                     ELSE Append(t_history, Message("assistant", "router"))
    /\ t_pc' = "returned"
    /\ UNCHANGED <<t_query, t_image, t_decision>>
    /\ UNCHANGED notRtVars

NextRouter ==
    \/ process_request_route
    \/ process_request_dispatch

SpecRouter == InitRouter /\ [][NextRouter]_vars

(***************************************************************************)
(* The input server (input_server.py) and the dialogue agent's             *)
(* _get_user_input, which asks it for the user's answer.  Request 1 is the *)
(* agent's; the other requests come from other clients.  The time a        *)
(* /get-input request has waited is counted in polls of the pending slot.  *)
(***************************************************************************)
MaxWaiters == 2
MaxSubmissions == 2
MaxPolls == 2

\* The texts the UI may submit, and lines typed at the terminal.
SubmittedTexts == {"", "paneer, not tofu"}

\* input() at the terminal: end of input or two empty lines at once (the
\* joined lines are empty), or a typed answer.
TerminalInputs == {"", "it is grilled"}

\* A /get-input request that has not been made.
NoRequest == [pc |-> "none", polls |-> 0, response |-> None]

\* get_input's return after the loop: status 408.
timeout_response == [status |-> 408, input |-> "", error |-> "timeout", n |-> 0]

\* get_input's return from inside the loop; n is the number of the
\* submission served.
served_response(data) == [status |-> 200, input |-> data.text, error |-> "", n |-> data.n]

\* Mutant of taken: the slot is left as it is when an input is returned.
taken_not_cleared(pending) == pending

\* The pending slot after get_input has taken its input: data None, ready
\* False, set before the lock is released.
taken(pending) == [data |-> None, ready |-> FALSE]

\* time.time() - start_time < timeout
within_timeout(polls) == polls < MaxPolls

InitInput ==
    /\ IdleExcept("input")
    /\ i_pending = [data |-> None, ready |-> FALSE]
    /\ i_threads = [k \in 1..MaxWaiters |-> NoRequest]
    /\ i_submitted = 0
    /\ i_agent = [pc |-> "start", value |-> "", via |-> "", timed_out |-> FALSE]

\* _get_user_input without a callback: requests.get on /get-input; when the
\* request raises (no server, client timeout) the terminal is used.
agent_request ==
    /\ i_agent.pc = "start"
    /\ \E reachable \in BOOLEAN :
          IF reachable
          THEN /\ i_threads' = [i_threads EXCEPT ![1] = [NoRequest EXCEPT !.pc = "polling"]]
               /\ i_agent' = [i_agent EXCEPT !.pc = "waiting"]
          ELSE /\ i_agent' = [i_agent EXCEPT !.pc = "terminal"]
               /\ UNCHANGED i_threads
    /\ UNCHANGED <<i_pending, i_submitted>>
    /\ UNCHANGED notInVars

\* Another client's /get-input request arrives.
get_input_begin(k) ==
    /\ k # 1
    /\ i_threads[k].pc = "none"
    /\ i_threads' = [i_threads EXCEPT ![k] = [NoRequest EXCEPT !.pc = "polling"]]
    /\ UNCHANGED <<i_pending, i_submitted, i_agent>>
    /\ UNCHANGED notInVars

\* One iteration of get_input's loop, under the lock: a ready input is
\* taken and the slot reset; else the request sleeps.
get_input_poll(k) ==
    /\ i_threads[k].pc = "polling"
    /\ within_timeout(i_threads[k].polls)
    /\ IF i_pending.ready
       THEN /\ i_threads' = [i_threads EXCEPT ![k] =
                                [pc |-> "done", polls |-> @.polls,
                                 response |-> served_response(i_pending.data)]]
            /\ i_pending' = taken(i_pending)
       ELSE /\ i_threads' = [i_threads EXCEPT ![k].polls = @ + 1]
            /\ UNCHANGED i_pending
    /\ UNCHANGED <<i_submitted, i_agent>>
    /\ UNCHANGED notInVars

\* get_input's loop ends by timeout.
get_input_timeout(k) ==
    /\ i_threads[k].pc = "polling"
    /\ ~within_timeout(i_threads[k].polls)
    /\ i_threads' = [i_threads EXCEPT ![k] =
                        [pc |-> "done", polls |-> @.polls, response |-> timeout_response]]
    /\ UNCHANGED <<i_pending, i_submitted, i_agent>>
    /\ UNCHANGED notInVars

\* submit_input, under the lock: the slot is overwritten.
submit_input ==
    /\ i_submitted < MaxSubmissions
    /\ \E user_input \in SubmittedTexts :
          i_pending' = [data |-> [n |-> i_submitted + 1, text |-> user_input],
                        ready |-> TRUE]
    /\ i_submitted' = i_submitted + 1
    /\ UNCHANGED <<i_threads, i_agent>>
    /\ UNCHANGED notInVars

\* _get_user_input gets the response: status 200 returns its input; any
\* other status falls through to the terminal.  timed_out records, for the
\* properties only, that the response was the timeout's.
agent_response ==
    /\ i_agent.pc = "waiting"
    /\ i_threads[1].pc = "done"
    /\ LET response == i_threads[1].response IN
       IF response.status = 200
       THEN i_agent' = [pc |-> "returned", value |-> response.input, via |-> "api",
                        timed_out |-> (response.error = "timeout")]
       ELSE i_agent' = [pc |-> "terminal", value |-> "", via |-> "",
                        timed_out |-> (response.error = "timeout")]
    /\ UNCHANGED <<i_pending, i_threads, i_submitted>>
    /\ UNCHANGED notInVars

\* The terminal fallback: the lines read, joined and stripped, are
\* returned.
agent_terminal ==
    /\ i_agent.pc = "terminal"
    /\ \E typed \in TerminalInputs :
          i_agent' = [i_agent EXCEPT !.pc = "returned", !.value = typed, !.via = "terminal"]
    /\ UNCHANGED <<i_pending, i_threads, i_submitted>>
    /\ UNCHANGED notInVars

NextInput ==
    \/ agent_request
    \/ \E k \in 1..MaxWaiters : get_input_begin(k)
    \/ \E k \in 1..MaxWaiters : get_input_poll(k)
    \/ \E k \in 1..MaxWaiters : get_input_timeout(k)
    \/ submit_input
    \/ agent_response
    \/ agent_terminal

SpecInput == InitInput /\ [][NextInput]_vars

(***************************************************************************)
(* Properties of the mass stage (checked under SpecMass).                  *)
(***************************************************************************)
\* Every ingredient entry the stage has produced so far.
AllIngredientMasses ==
    { m_masses[i] : i \in 1..Len(m_masses) }
    \cup UNION { { m_results[f].ingredient_masses[i] :
                     i \in 1..Len(m_results[f].ingredient_masses) } :
                 f \in 1..Len(m_results) }

\* C1: every density get_density_with_fallback resolves lies in
\* [0.05, 2.0] kg/L, whichever strategy resolved it, the estimate included.
C1_ResolvedDensityInRange ==
    \A e \in AllIngredientMasses :
        MinDensity <= e.density_kg_per_L /\ e.density_kg_per_L <= MaxDensity

WaterfallOrder == <<"search_density_in_pdf", "search_density_on_web", "estimate_density">>

\* C2: the strategies are called in the order PDF, web, estimate; a strategy
\* is called only if every strategy before it returned no value, so the
\* first one that returns a validated value is the last one called.
C2_WaterfallShortCircuit ==
    /\ Len(m_calls) <= 3
    /\ \A i \in 1..Len(m_calls) : m_calls[i].call = WaterfallOrder[i]
    /\ \A i \in 1..Len(m_calls) : \A j \in 1..Len(m_calls) :
          i < j => m_calls[i].returned = None

\* C2 witness: the PDF lookup returned no value, the web lookup returned a
\* validated one, the ingredient is resolved and the estimate was not called.
C2_Witness_WebResolves ==
    /\ Len(m_calls) = 2
    /\ m_calls[1].returned = None
    /\ m_calls[2].returned = Some(93)
    /\ m_pc \in {"pdf", "food"}
    /\ \E e \in AllIngredientMasses : e.method = "WEB_SEARCH"

\* C3: a mass record is produced for every food under every combination of
\* strategy failures: no failure of a strategy ends the stage, and the
\* stage's output holds one record per input food.
C3_MassAlwaysComputable ==
    /\ m_pc # "crashed"
    /\ m_pc = "exit0" => Len(m_output) = Len(m_foods)

\* C10 (as claimed): total_mass_grams is the sum of the entries' mass_grams
\* and each mass_grams is exactly volume_litres * density_kg_per_L * 1000.
C10_MassExact ==
    \A f \in 1..Len(m_results) :
        LET rec == m_results[f] IN
        /\ rec.total_mass_grams =
              SumInts([i \in 1..Len(rec.ingredient_masses) |-> rec.ingredient_masses[i].mass_grams])
        /\ \A i \in 1..Len(rec.ingredient_masses) :
              LET e == rec.ingredient_masses[i] IN
              10 * e.mass_grams = e.volume_litres * e.density_kg_per_L

\* C10 (amended): total_mass_grams is the sum of the entries' mass_grams and
\* each mass_grams is volume_litres * density_kg_per_L * 1000 rounded to two
\* decimals, that is within 0.005 g of it.
C10_TotalIsSumOfRoundedMasses ==
    \A f \in 1..Len(m_results) :
        LET rec == m_results[f] IN
        /\ rec.total_mass_grams =
              SumInts([i \in 1..Len(rec.ingredient_masses) |-> rec.ingredient_masses[i].mass_grams])
        /\ \A i \in 1..Len(rec.ingredient_masses) :
              LET e == rec.ingredient_masses[i] IN
              /\ e.volume_litres = m_foods[f].ingredient_volumes[i]
              /\ Abs(10 * e.mass_grams - e.volume_litres * e.density_kg_per_L) <= 5

\* C10 witness: a record of two ingredients, one of them of 0.0334 L at
\* 0.93 kg/L (31.062 g, recorded as 31.06 g), with its total.
C10_Witness_TwoIngredients ==
    \E f \in 1..Len(m_results) :
        /\ Len(m_results[f].ingredient_masses) = 2
        /\ m_results[f].ingredient_masses[1].volume_litres = 334
        /\ m_results[f].ingredient_masses[1].density_kg_per_L = 93
        /\ m_results[f].ingredient_masses[1].mass_grams = 3106
        /\ m_results[f].total_mass_grams > 3106

(***************************************************************************)
(* Properties of the decomposition stage (checked under SpecDecompose).    *)
(***************************************************************************)
\* The last item the loop consumed, and the record appended last.
LastItem == d_items[d_idx]
LastRecord == d_results[Len(d_results)]

\* The last item was classified complex and its decomposition answer parsed.
LastWasDecomposed ==
    /\ d_pc \in {"loop", "save", "exit0"}
    /\ d_idx > 0
    /\ d_answer.kind = "json"

AnswerGroup == d_answer.ingredient_volumes
AnswerTotal == SumInts([i \in 1..Len(AnswerGroup) |-> AnswerGroup[i].percentage])

\* volume = percentage / 100 * segment volume, for rationals.
VolumeMatches(c, segment_volume) ==
    c.volume_litres[1] * 100 * c.percentage[2]
        = c.percentage[1] * segment_volume * c.volume_litres[2]

\* C4: a group whose percentages sum to a non-zero total more than 1 away
\* from 100 is rescaled by 100/total: the record holds every entry with
\* percentage * 100 / total, the percentages sum to 100 and every volume is
\* new percentage / 100 * segment volume.
C4_RescaledTo100 ==
    (LastWasDecomposed /\ AnswerTotal # 0 /\ Abs(AnswerTotal - 100) > 1) =>
        /\ Len(d_results) > 0
        /\ LastRecord.segment_id = LastItem.segment_id
        /\ Len(LastRecord.ingredient_volumes) = Len(AnswerGroup)
        /\ SumRats([i \in 1..Len(AnswerGroup) |->
                      LastRecord.ingredient_volumes[i].percentage]) = <<100, 1>>
        /\ \A i \in 1..Len(AnswerGroup) :
              LET c == LastRecord.ingredient_volumes[i] IN
              /\ c.percentage[1] * AnswerTotal
                    = 100 * AnswerGroup[i].percentage * c.percentage[2]
              /\ VolumeMatches(c, LastItem.volume_litres)

\* C4 witness: 45 and 65 (sum 110) became 450/11 = 40.9 and 650/11 = 59.1.
C4_Witness_45_65 ==
    /\ LastWasDecomposed
    /\ Len(AnswerGroup) = 2
    /\ AnswerGroup[1].percentage = 45 /\ AnswerGroup[2].percentage = 65
    /\ Len(d_results) > 0
    /\ LastRecord.ingredient_volumes[1].percentage = <<450, 11>>
    /\ LastRecord.ingredient_volumes[2].percentage = <<650, 11>>

\* C5: every ingredient entry of every record of the stage has
\* volume_litres = percentage / 100 * the segment's volume.
C5_VolumeIsShareOfSegment ==
    \A r \in 1..Len(d_results) :
        \A i \in 1..Len(d_results[r].ingredient_volumes) :
            VolumeMatches(d_results[r].ingredient_volumes[i],
                          d_items[d_results[r].segment_id].volume_litres)

\* C6: a decomposed group whose percentages sum to zero yields no record:
\* the segment is absent from the results (and the loop goes on).
C6_ZeroSumLeftOut ==
    (LastWasDecomposed /\ AnswerTotal = 0) =>
        \A r \in 1..Len(d_results) : d_results[r].segment_id # LastItem.segment_id

(***************************************************************************)
(* Properties of the nutrition stage (checked under SpecNutrition).        *)
(***************************************************************************)
\* The segment's source was found and its serving size is a number.
HasServing(seg) ==
    /\ seg.source_data # None
    /\ seg.source_data.source.serving_size_grams \notin {Absent, Null}

ServingOf(seg) == seg.source_data.source.serving_size_grams.v

\* The source holds a number under the nutrient key, and that number in
\* thousandths.
HasNumber(seg, k) == seg.source_data.source.nutrients[k] \in {"num", "zero", "fine"}

SourceMilli(seg, k) ==
    CASE seg.source_data.source.nutrients[k] = "num" -> 10 * BaseValue(k)
      [] seg.source_data.source.nutrients[k] = "zero" -> 0
      [] seg.source_data.source.nutrients[k] = "fine" -> FineValue(k)

\* C7 (as claimed): with a serving size > 0 every nutrient of
\* calculated_nutrition is exactly base_value * total_mass / serving_size,
\* and 0 for a nutrient absent or null in the source.
C7_ScaledExactly ==
    \A i \in 1..Len(n_segments) :
        LET seg == n_segments[i] IN
        (HasServing(seg) /\ ServingOf(seg) > 0) =>
            \A k \in Nutrients :
                IF HasNumber(seg, k)
                THEN 10 * seg.calculated_nutrition[k] * ServingOf(seg)
                        = SourceMilli(seg, k) * seg.total_mass_grams
                ELSE seg.calculated_nutrition[k] = 0

\* C7 (amended): with a serving size > 0 every nutrient of
\* calculated_nutrition is base_value * total_mass / serving_size rounded to
\* two decimals (within 0.005 of it), each nutrient on its own, and 0 for a
\* nutrient absent or null in the source.
C7_ScaledAndRounded ==
    \A i \in 1..Len(n_segments) :
        LET seg == n_segments[i] IN
        (HasServing(seg) /\ ServingOf(seg) > 0) =>
            \A k \in Nutrients :
                IF HasNumber(seg, k)
                THEN 2 * Abs(10 * seg.calculated_nutrition[k] * ServingOf(seg)
                               - SourceMilli(seg, k) * seg.total_mass_grams)
                        <= 10 * ServingOf(seg)
                ELSE seg.calculated_nutrition[k] = 0

\* C7 witness: 33.33 g of a food with 130 kcal per 100 g and no protein
\* value: 43.33 kcal (43.329 rounded), protein 0, fat 0.1 g.
C7_Witness_ProteinAbsent ==
    \E i \in 1..Len(n_segments) :
        LET seg == n_segments[i] IN
        /\ HasServing(seg) /\ ServingOf(seg) = 10000
        /\ seg.total_mass_grams = 3333
        /\ seg.source_data.source.nutrients["protein_g"] = "absent"
        /\ seg.calculated_nutrition["calories_kcal"] = 4333
        /\ seg.calculated_nutrition["protein_g"] = 0
        /\ seg.calculated_nutrition["fat_g"] = 10

\* C8: with a serving size <= 0 nothing is divided, nothing is raised and
\* the segment's calculated_nutrition is all zero.
C8_NonPositiveServingIsZeroed ==
    /\ n_pc # "ZeroDivisionError"
    /\ \A i \in 1..Len(n_segments) :
          LET seg == n_segments[i] IN
          (HasServing(seg) /\ ServingOf(seg) <= 0) =>
              \A k \in Nutrients : seg.calculated_nutrition[k] = 0

\* C8 witness: a segment whose source has serving size 0 was recorded, with
\* every nutrient given, and the loop went on to the next segment.
C8_Witness_ZeroServing ==
    /\ Len(n_segments) = 2
    /\ HasServing(n_segments[1]) /\ ServingOf(n_segments[1]) = 0
    /\ \A k \in Nutrients : n_segments[1].source_data.source.nutrients[k] = "num"
    /\ \A k \in Nutrients : n_segments[1].calculated_nutrition[k] = 0

\* C9: a found source without serving_size_grams (absent or null) does not
\* stop the stage: nothing is raised and every segment gets its record.
C9_MissingServingRecovered ==
    /\ n_pc # "TypeError"
    /\ n_pc = "exit0" => Len(n_segments) = Len(n_masses)

(***************************************************************************)
(* Properties of the totals (checked under SpecNutrition).                 *)
(***************************************************************************)
\* C11: the total_nutrition_summary written is, key by key, the sum of the
\* calculated_nutrition values of all processed segments, and all zero
\* when no segment was processed.
C11_TotalsAreSums ==
    n_pc = "exit0" =>
        /\ DOMAIN n_output.total_nutrition_summary = TotalKeys
        /\ n_output.nutritional_breakdown_per_segment = n_segments
        /\ \A t \in TotalKeys :
              n_output.total_nutrition_summary[t] =
                  SumInts([i \in 1..Len(n_segments) |->
                              n_segments[i].calculated_nutrition[nutrient_of(t)]])
        /\ n_segments = <<>> =>
              \A t \in TotalKeys : n_output.total_nutrition_summary[t] = 0

\* C11 witness: two segments of 43.33 kcal and 130 kcal were written with a
\* total of 173.33 kcal.
C11_Witness_TwoSegments ==
    /\ n_pc = "exit0"
    /\ Len(n_segments) = 2
    /\ n_segments[1].calculated_nutrition["calories_kcal"] = 4333
    /\ n_segments[2].calculated_nutrition["calories_kcal"] = 13000
    /\ n_output.total_nutrition_summary["total_calories_kcal"] = 17333

(***************************************************************************)
(* Properties of the decomposition stage's input handling (checked under   *)
(* SpecDecompose).                                                         *)
(***************************************************************************)
\* C12: on an input document with neither key the stage does not end with
\* exit status 0 and leaves no agent1_output.json for the later stages.
C12_UnrecognizedInputHalts ==
    unrecognized(d_data) => (d_pc # "exit0" /\ d_output = Missing)

\* C13: once the shape is decided, a document with a verified_volumes key
\* (whether or not confirmed_results is present too) gives one item per
\* entry, named by food_name, with suggested_volume_litres as its volume and
\* the entry's segment_id; a document with confirmed_results only gives its
\* entries unchanged.
C13_ShapeDecidedByKeys ==
    d_pc \in {"loop", "save", "crashed", "exit0"} =>
        /\ "verified_volumes" \in d_data.keys =>
              /\ Len(d_items) = Len(d_data.verified_volumes)
              /\ \A i \in 1..Len(d_items) :
                    LET entry == d_data.verified_volumes[i] IN
                    /\ d_items[i].final_food_name = entry.food_name
                    /\ d_items[i].volume_litres = entry.suggested_volume_litres
                    /\ d_items[i].segment_id = entry.segment_id
        /\ d_data.keys = {"confirmed_results"} => d_items = d_data.confirmed_results

\* C13 witness: a document with both keys was read; the first item carries
\* the verification's name and its suggested 0.4 L, not the confirmed 0.2 L.
C13_Witness_BothKeys ==
    /\ d_pc = "loop"
    /\ d_data.keys = {"verified_volumes", "confirmed_results"}
    /\ Len(d_items) = 2
    /\ d_data.confirmed_results[1].volume_litres = 200
    /\ d_data.confirmed_results[1].final_food_name = "Paneer Curry"
    /\ d_items[1].volume_litres = 400
    /\ d_items[1].final_food_name = "Paneer"
    /\ d_items[1].segment_id = 1

\* C14: for a verification entry with confidence <= 0.7, or with
\* adjustment_made false, the volume the stage decomposes is the original
\* volume.
C14_LowConfidenceKeepsOriginal ==
    (d_pc \in {"loop", "save", "crashed", "exit0"} /\ "verified_volumes" \in d_data.keys) =>
        \A i \in 1..Len(d_items) :
            LET entry == d_data.verified_volumes[i] IN
            (entry.confidence <= 70 \/ ~entry.adjustment_made) =>
                d_items[i].volume_litres = entry.original_volume_litres

\* The segment ids of a list of records, in order.
segment_ids(records) == [i \in 1..Len(records) |-> records[i].segment_id]

\* C20: the stage's output holds every segment of its input exactly once,
\* under its segment_id, and no other segment.
C20_EverySegmentKept ==
    d_pc = "exit0" => segment_ids(d_output.decomposed_foods) = segment_ids(d_items)

(***************************************************************************)
(* Properties of the pipeline runner (checked under SpecRunner).           *)
(***************************************************************************)
\* The status a stage ended with (it has ended).
StatusOf(stage) == r_log[stage].status

\* C19: the stages start in the order 1, 2, 3, 4, 5, each at most once and
\* one at a time; a stage other than the first has started only if the
\* stage before it ended with status 0 and wrote its output file in this
\* run; once a stage has ended with a non-zero status no later stage has
\* started and the runner is at exit status 1.
C19_StagesStrictlyInSequence ==
    /\ Len(r_started) <= 5
    /\ \A i \in 1..Len(r_started) : r_started[i] = i
    /\ \A i \in 1..Len(r_log) : r_log[i].stage = i
    /\ Len(r_log) <= Len(r_started) /\ Len(r_started) <= Len(r_log) + 1
    /\ \A k \in 2..Len(r_started) :
          /\ StatusOf(k - 1) = 0
          /\ OutputFile(k - 1) \in r_written
    /\ \A i \in 1..Len(r_log) :
          StatusOf(i) # 0 => (Len(r_started) = i /\ r_pc = "exit1")
    /\ r_pc = "exit0" => (Len(r_log) = 5 /\ \A i \in 1..5 : StatusOf(i) = 0)

\* C19 witness: stages 1 and 2 ended with status 0, stage 3 ended with
\* status 1 while an agent1_output.json of an earlier run lay on the disk;
\* the runner is at exit status 1 and stage 4 was not started.
C19_Witness_ThirdStageFails ==
    /\ r_pc = "exit1"
    /\ r_started = <<1, 2, 3>>
    /\ Len(r_log) = 3 /\ StatusOf(1) = 0 /\ StatusOf(2) = 0 /\ StatusOf(3) = 1
    /\ "agent1_output.json" \in r_disk
    /\ "agent1_output.json" \notin r_written

(***************************************************************************)
(* Properties of the dialogue step (checked under SpecDialogue).           *)
(***************************************************************************)
\* The selection has been made.
Selected == q_pc \in {"ask", "merge", "suggest", "returned"}

\* C15: with more candidate questions than the cap, the selection holds
\* exactly cap entries, each one a candidate, no segment_id twice.
C15_SelectionFillsCap ==
    (Selected /\ Len(q_questions) > MaxQuestions) =>
        /\ Len(q_selected) = MaxQuestions
        /\ \A i \in 1..Len(q_selected) :
              \E j \in 1..Len(q_questions) : q_selected[i] = q_questions[j]
        /\ \A i, j \in 1..Len(q_selected) :
              q_selected[i].segment_id = q_selected[j].segment_id => i = j

\* The merging step has run and no additional suggestion has refined its
\* results.
MergedOnly ==
    \/ q_pc = "suggest"
    \/ q_pc = "returned" /\ q_additional = Some("")

\* C16: after the merging step a segment that was not asked about, or for
\* which no answer was parsed, has its identification name as
\* final_food_name and empty clarifications (so an answer parsed for a
\* segment that was not asked about changes nothing); the clarifications
\* stay empty in the returned results.
C16_UnansweredKeepName ==
    q_pc \in {"suggest", "returned"} =>
        /\ Len(q_results) = Len(q_segments)
        /\ \A i \in 1..Len(q_segments) :
              LET seg == q_segments[i]
                  res == q_results[i]
              IN  (~question_was_asked(q_selected, seg.segment_id)
                   \/ seg.segment_id \notin DOMAIN q_answers) =>
                      /\ res.segment_id = seg.segment_id
                      /\ res.clarifications = {}
                      /\ MergedOnly => res.final_food_name = seg.food_name

\* C16 witness: of four candidates the first three were asked; answers were
\* parsed for segments 1 and 4; after the merge segment 1 has a synthesised
\* name and segment 4 its identification name.
C16_Witness_AnswerForUnasked ==
    /\ q_pc = "suggest"
    /\ Len(q_segments) = 4
    /\ ids_of(q_selected) = {1, 2, 3}
    /\ DOMAIN q_answers = {1, 4}
    /\ q_results[1].final_food_name = <<"synthesised", 1>>
    /\ q_results[4].final_food_name = <<"vlm", 4>>
    /\ q_results[4].clarifications = {}

(***************************************************************************)
(* Properties of the router (checked under SpecRouter).                    *)
(***************************************************************************)
\* The names of the calls made so far.
Called(name) == \E i \in 1..Len(t_calls) : t_calls[i] = name

\* C17: once the workflow is decided, a request without an image is routed
\* to CONVERSATIONAL_VLM and a request with an image and no query to
\* CALORIE_MODEL, both without a call of decide_workflow; decide_workflow
\* is called only for an image with a non-empty query; call_calorie_model
\* is never called without an image.
C17_OverridesPrecedeClassifier ==
    /\ t_pc \in {"dispatch", "returned"} =>
          /\ ~t_image =>
                (~Called("decide_workflow") /\ t_decision.agent = "CONVERSATIONAL_VLM")
          /\ (t_image /\ no_query(t_query)) =>
                (~Called("decide_workflow") /\ t_decision.agent = "CALORIE_MODEL")
    /\ Called("decide_workflow") => (t_image /\ ~no_query(t_query))
    /\ Called("call_calorie_model") => t_image
    /\ (t_pc = "returned" /\ ~t_image) => Called("call_conversational_vlm")

\* C17 witness: a question asked without an image was answered by the
\* conversational agent, the only call made.
C17_Witness_NoImage ==
    /\ t_pc = "returned"
    /\ ~t_image
    /\ t_query = Str("How many calories?")
    /\ t_calls = <<"call_conversational_vlm">>
    /\ t_result.success

(***************************************************************************)
(* Properties of the input wait (checked under SpecInput).                 *)
(***************************************************************************)
\* C18: when the agent's /get-input request ended by timeout,
\* _get_user_input does not return an empty answer (which confirm_analysis
\* takes as "no answers provided").
C18_TimeoutIsExplicit ==
    (i_agent.pc = "returned" /\ i_agent.timed_out) => i_agent.value # ""

(***************************************************************************)
(* Properties of the density waterfall's provenance and validation         *)
(* (checked under SpecMass).                                               *)
(***************************************************************************)
Methods == {"PDF_RAG", "WEB_SEARCH", "LLM_ESTIMATE"}

\* get_density_with_fallback has just returned for an ingredient: m_calls
\* holds the calls made for it and its entry is the one appended last.
JustResolved == m_calls # <<>> /\ m_pc \in {"pdf", "food", "exit0"}

LastEntry ==
    IF m_masses # <<>>
    THEN m_masses[Len(m_masses)]
    ELSE LET rec == m_results[Len(m_results)]
         IN  rec.ingredient_masses[Len(rec.ingredient_masses)]

\* The strategy called i-th for the ingredient returned a validated value.
ReturnedValue(i) ==
    /\ i <= Len(m_calls)
    /\ m_calls[i].returned # None
    /\ m_calls[i].returned.kind = "value"

\* C21: every ingredient entry carries a method field, one of PDF_RAG,
\* WEB_SEARCH and LLM_ESTIMATE, and it names the strategy that produced the
\* entry's density: PDF_RAG exactly when the PDF lookup returned a validated
\* value, WEB_SEARCH exactly when the PDF lookup returned none and the web
\* lookup returned a validated value, LLM_ESTIMATE otherwise.
C21_MethodNamesResolver ==
    /\ \A e \in AllIngredientMasses :
          "method" \in DOMAIN e /\ e.method \in Methods
    /\ JustResolved =>
          /\ (LastEntry.method = "PDF_RAG") <=> ReturnedValue(1)
          /\ (LastEntry.method = "WEB_SEARCH") <=> (~ReturnedValue(1) /\ ReturnedValue(2))
          /\ (LastEntry.method = "LLM_ESTIMATE") <=> (~ReturnedValue(1) /\ ~ReturnedValue(2))
          /\ LastEntry.density_kg_per_L = m_calls[Len(m_calls)].returned.v

\* C21 witness: the PDF lookup's answer was rejected, the web lookup returned
\* 0.93 kg/L, and the entry for the ingredient says WEB_SEARCH; an earlier
\* entry of the same food says PDF_RAG.
C21_Witness_WebAfterPdf ==
    /\ JustResolved
    /\ Len(m_calls) = 2
    /\ ~ReturnedValue(1)
    /\ m_calls[2].returned = Some(93)
    /\ m_pc = "food"
    /\ Len(m_results[Len(m_results)].ingredient_masses) = 2
    /\ m_results[Len(m_results)].ingredient_masses[1].method = "PDF_RAG"
    /\ LastEntry.method = "WEB_SEARCH"


\* The waterfall moved on from the strategy called i-th for the ingredient:
\* the next strategy was called or is about to be.
Advanced(i) ==
    \/ i < Len(m_calls)
    \/ i = Len(m_calls) /\ m_pc = (IF i = 1 THEN "web" ELSE "estimate")

LookupCalls ==
    { i \in 1..Len(m_calls) :
        m_calls[i].call \in {"search_density_in_pdf", "search_density_on_web"} }

\* C24: a density below 0.05 or above 2.0 kg/L answered by the PDF lookup or
\* by the web lookup has the effect of a not-found or unparseable answer: the
\* strategy returns no value and the waterfall advances to the next strategy.
\* An answer of exactly 0.05 or 2.0 kg/L is returned and resolves the
\* ingredient.
C24_OutOfRangeIsNotFound ==
    \A i \in LookupCalls :
        LET c == m_calls[i] IN
        /\ c.answer.kind \in {"not_found", "parse_error"} =>
              c.returned = None /\ Advanced(i)
        /\ (c.answer.kind = "found" /\ (c.answer.density < 5 \/ c.answer.density > 200)) =>
              c.returned = None /\ Advanced(i)
        /\ (c.answer.kind = "found" /\ c.answer.density \in {5, 200}) =>
              /\ c.returned = Some(c.answer.density)
              /\ i = Len(m_calls)
              /\ JustResolved
              /\ LastEntry.density_kg_per_L = c.answer.density

\* C24 witness: the PDF lookup answered 2.01 kg/L and the web lookup
\* 0.04 kg/L, both were rejected and the estimate was called; the ingredient
\* before it was resolved by a web answer of exactly 2.0 kg/L.
C24_Witness_BothRejected ==
    /\ Len(m_calls) = 3
    /\ m_calls[1].answer = [kind |-> "found", density |-> 201]
    /\ m_calls[2].answer = [kind |-> "found", density |-> 4]
    /\ m_calls[1].returned = None
    /\ m_calls[2].returned = None
    /\ m_masses # <<>>
    /\ m_masses[1].density_kg_per_L = 200
    /\ m_masses[1].method = "WEB_SEARCH"

(***************************************************************************)
(* Properties of the nutrition records (checked under SpecNutrition).      *)
(***************************************************************************)
\* Why a record's calculated_nutrition may be all zero: nothing was found,
\* the source's serving size is not usable, or the values were scaled.
OutcomeClass(answer) ==
    IF answer = None THEN "not_found"
    ELSE IF answer.source.serving_size_grams.v <= 0 THEN "unusable_serving"
    ELSE "scaled"

\* The lookups that leave a segment with an all-zero calculated_nutrition:
\* nothing found, a source whose four values are 0, and a source with a
\* serving size of 0 g or -100 g.
ZeroLookups ==
    { None }
    \cup { [kind |-> "found",
            source |-> [serving_size_grams |-> sv,
                        nutrients |-> [k \in Nutrients |-> "zero"]]] :
             sv \in {Num(-10000), Num(0), Num(10000)} }
    \cup { [kind |-> "found",
            source |-> [serving_size_grams |-> sv,
                        nutrients |-> [k \in Nutrients |-> "num"]]] :
             sv \in {Num(-10000), Num(0)} }

RecordFor(food_item, answer) ==
    processed_segment(food_item,
                      segment_nutrition(answer, food_item.total_mass_grams).nutrition,
                      answer)

\* C22: a segment whose lookup found nothing is recorded with an all-zero
\* calculated_nutrition, and a segment's record differs from every
\* all-zero record the same segment would get from a lookup of another
\* outcome: nothing found, a source with an unusable serving size, a source
\* whose values are genuinely 0.
C22_NotFoundIsDistinguishable ==
    /\ n_pc = "exit0" => n_output.nutritional_breakdown_per_segment = n_segments
    /\ \A i \in 1..Len(n_segments) :
          LET seg == n_segments[i]
              item == n_masses[i]
          IN  /\ seg.source_data = None => seg.calculated_nutrition = zero_nutrition
              /\ \A b \in ZeroLookups :
                    /\ b \in NutritionAnswers
                    /\ RecordFor(item, b).calculated_nutrition = zero_nutrition
                    /\ OutcomeClass(b) # OutcomeClass(seg.source_data) => RecordFor(item, b) # seg

\* C22 witness: the output was written with a segment for which nothing was
\* found and a segment whose source reports 0 for every nutrient per 100 g;
\* both have an all-zero calculated_nutrition and their source_data differ.
C22_Witness_ZeroFoodAndNotFound ==
    /\ n_pc = "exit0"
    /\ Len(n_output.nutritional_breakdown_per_segment) = 2
    /\ LET a == n_output.nutritional_breakdown_per_segment[1]
           b == n_output.nutritional_breakdown_per_segment[2]
       IN  /\ a.source_data = None
           /\ b.source_data # None
           /\ b.source_data.source.serving_size_grams = Num(10000)
           /\ \A k \in Nutrients : b.source_data.source.nutrients[k] = "zero"
           /\ a.calculated_nutrition = zero_nutrition
           /\ b.calculated_nutrition = zero_nutrition
           /\ a.total_mass_grams = b.total_mass_grams

\* The segment was scaled with factor 1: its mass is the serving size.
FactorOne(seg) ==
    HasServing(seg) /\ ServingOf(seg) > 0 /\ seg.total_mass_grams = ServingOf(seg)

\* Scaling a calculated value once more with factor 1.
ScaledAgain(seg, k) ==
    scaled_nutrient(Num(seg.calculated_nutrition[k]), ServingOf(seg), ServingOf(seg))

\* C23 (as claimed): with total_mass_grams equal to serving_size_grams every
\* calculated value equals the source's per-serving value unchanged, and
\* scaling it again with factor 1 returns the same value.
C23_FactorOneUnchanged ==
    \A i \in 1..Len(n_segments) :
        LET seg == n_segments[i] IN
        FactorOne(seg) =>
            \A k \in Nutrients :
                /\ HasNumber(seg, k) => 10 * seg.calculated_nutrition[k] = SourceMilli(seg, k)
                /\ ScaledAgain(seg, k) = seg.calculated_nutrition[k]

\* C23 (amended): with total_mass_grams equal to serving_size_grams every
\* calculated value is the source's per-serving value rounded to two
\* decimals (the value itself when it has no more than two decimals, 0 for
\* a nutrient absent or null in the source), and scaling it again with
\* factor 1 returns the same value.
C23_FactorOneRoundsOnce ==
    \A i \in 1..Len(n_segments) :
        LET seg == n_segments[i] IN
        FactorOne(seg) =>
            \A k \in Nutrients :
                /\ seg.calculated_nutrition[k] =
                      (IF HasNumber(seg, k) THEN round2(SourceMilli(seg, k)) ELSE 0)
                /\ (HasNumber(seg, k) /\ SourceMilli(seg, k) % 10 = 0) =>
                      10 * seg.calculated_nutrition[k] = SourceMilli(seg, k)
                /\ ScaledAgain(seg, k) = seg.calculated_nutrition[k]

\* C23 witness: 100 g of a food with 130 kcal and 28.176 g carbohydrates per
\* 100 g: 130 kcal unchanged, 28.18 g carbohydrates.
C23_Witness_ThreeDecimals ==
    \E i \in 1..Len(n_segments) :
        LET seg == n_segments[i] IN
        /\ FactorOne(seg)
        /\ seg.total_mass_grams = 10000
        /\ seg.source_data.source.nutrients["carbohydrates_g"] = "fine"
        /\ seg.calculated_nutrition["calories_kcal"] = 13000
        /\ seg.calculated_nutrition["carbohydrates_g"] = 2818

(***************************************************************************)
(* Properties of the collecting and selecting steps (checked under         *)
(* SpecDialogue).                                                          *)
(***************************************************************************)
\* The collecting step has run.
Collected == q_pc # "collect"

\* The candidate questions collected for a segment.
CandidatesOf(seg) ==
    { j \in 1..Len(q_questions) : q_questions[j].segment_id = seg.segment_id }

\* C25: after the collecting step every segment with confidence below 0.95,
\* a non-empty uncertainty list or the ambiguity flag set has exactly one
\* candidate question, and every other segment has none.
C25_OneCandidatePerUncertainSegment ==
    Collected =>
        \A i \in 1..Len(q_segments) :
            LET seg == q_segments[i] IN
            IF seg.confidence < 95 \/ seg.major_uncertainties # <<>> \/ seg.ambiguity_flag
            THEN Cardinality(CandidatesOf(seg)) = 1
            ELSE CandidatesOf(seg) = {}

\* The place of a selected question in the candidate list (segment ids are
\* distinct, so there is at most one).
PlaceOf(q) == { j \in 1..Len(q_questions) : q_questions[j] = q }

\* C26: when the ranking call raises or its answer cannot be parsed, the
\* selection is the first max_questions candidates in their order; the
\* selecting step can always be taken and ends with a selection; and
\* whatever the ranking call answers, the selected questions are candidates
\* in the relative order they had in the candidate list.
C26_FallbackIsFirstInOrder ==
    /\ q_pc = "select" => ENABLED confirm_analysis_select
    /\ Selected =>
          /\ (q_ranking # None /\ q_ranking.kind \in {"raise", "parse_error"}) =>
                /\ Len(q_selected) = MaxQuestions
                /\ \A i \in 1..MaxQuestions : q_selected[i] = q_questions[i]
          /\ \A i \in 1..Len(q_selected) : PlaceOf(q_selected[i]) # {}
          /\ \A i, j \in 1..Len(q_selected) :
                i < j => \A a \in PlaceOf(q_selected[i]) :
                            \A b \in PlaceOf(q_selected[j]) : a < b

\* C26 witness: four candidates, the ranking call raised, and the first
\* three candidates were selected.
C26_Witness_RankingRaised ==
    /\ Selected
    /\ Len(q_questions) = 4
    /\ q_ranking # None
    /\ q_ranking.kind = "raise"
    /\ ids_of(q_selected) = {1, 2, 3}
    /\ q_selected[1].segment_id = 1
    /\ q_selected[3].segment_id = 3

(***************************************************************************)
(* Properties of simple foods (checked under SpecDecompose).               *)
(***************************************************************************)
\* decompose_food returned for the last item without a decomposition call:
\* the item was classified simple, or the complexity answer did not parse.
LastWasSimple ==
    /\ d_pc \in {"loop", "save", "exit0"}
    /\ d_idx > 0
    /\ d_answer = None

\* C27: a food classified simple gets a record with exactly one ingredient
\* entry, at percentage 100 with the segment's volume, flagged
\* is_basic_ingredient, and neither the web search nor the decomposition
\* call is made for it; a complexity answer that does not parse gives the
\* same record and the same calls as the answer "simple".
C27_SimpleIsOneComponent ==
    /\ LastWasSimple =>
          /\ Len(d_results) > 0
          /\ LastRecord.segment_id = LastItem.segment_id
          /\ LastRecord.is_basic_ingredient = TRUE
          /\ Len(LastRecord.ingredient_volumes) = 1
          /\ LastRecord.ingredient_volumes[1].percentage = <<100, 1>>
          /\ LastRecord.ingredient_volumes[1].volume_litres = <<LastItem.volume_litres, 1>>
          /\ d_calls = <<"analyze_food_complexity">>
    /\ \A i \in 1..Len(d_items) :
          /\ decompose_food("parse_error", None, d_items[i].volume_litres)
                = decompose_food("simple", None, d_items[i].volume_litres)
          /\ calls_made("parse_error") = calls_made("simple")
          /\ Len(decompose_food("parse_error", None, d_items[i].volume_litres).ingredient_volumes) = 1

\* C27 witness: the second item, a 0.4 L segment, was classified simple and
\* its record holds one entry of 100 percent and 0.4 L.
C27_Witness_SecondItemSimple ==
    /\ LastWasSimple
    /\ d_idx = 2
    /\ LastItem.volume_litres = 400
    /\ Len(d_results) = 2
    /\ LastRecord.ingredient_volumes = << [percentage |-> <<100, 1>>, volume_litres |-> <<400, 1>>] >>

(***************************************************************************)
(* Properties of a run with an image path only (checked under SpecRunner). *)
(***************************************************************************)
\* C28: the runner given an image path and no session folder, with the
\* interpreter at hand, ends having started the five stages in order and at
\* exit status 0 whenever every stage that ended did so with status 0.
C28_ImageOnlyRunCompletes ==
    (/\ r_args = 1
     /\ r_python
     /\ r_pc \in {"exit0", "exit1"}
     /\ \A i \in 1..Len(r_log) : StatusOf(i) = 0)
        => (r_started = <<1, 2, 3, 4, 5>> /\ r_pc = "exit0")

(***************************************************************************)
(* Properties of the pending slot (checked under SpecInput).               *)
(***************************************************************************)
\* The /get-input requests that returned an input, and the number of the
\* submission each one returned.
Served == { k \in 1..MaxWaiters :
              i_threads[k].pc = "done" /\ i_threads[k].response.status = 200 }

\* C29: no submitted input is returned by two /get-input requests, whatever
\* the interleaving of the requests: a submission still in the pending slot
\* has been returned by no request, and the slot is empty (data None, ready
\* False) or holds a submission (ready True), never a returned one.
C29_InputServedAtMostOnce ==
    /\ \A j, k \in Served :
          i_threads[j].response.n = i_threads[k].response.n => j = k
    /\ \A k \in Served : i_threads[k].response.n \in 1..i_submitted
    /\ IF i_pending.ready
       THEN /\ i_pending.data # None
            /\ \A k \in Served : i_threads[k].response.n # i_pending.data.n
       ELSE i_pending.data = None

\* C29 witness: two /get-input requests were waiting, one input was
\* submitted, one request returned it and the other, finding the slot
\* empty, waited until its timeout.
C29_Witness_OneOfTwoServed ==
    /\ i_submitted = 1
    /\ \E j, k \in 1..MaxWaiters :
          /\ j \in Served
          /\ i_threads[j].response.n = 1
          /\ i_threads[j].polls > 0
          /\ i_threads[k].pc = "done"
          /\ i_threads[k].response = timeout_response
    /\ i_pending = [data |-> None, ready |-> FALSE]

(***************************************************************************)
(* Properties of the conversation history (checked under SpecRouter).      *)
(***************************************************************************)
\* The places of the messages appended during this process_request call.
NewMessages == { i \in 1..Len(t_history) : t_history[i].by # "earlier" }

\* C30: when process_request has ended, on whatever branch, the history is
\* the earlier messages, untouched and in their places, followed by exactly
\* one user message and then exactly one assistant message.
C30_OneUserOneAssistantPerTurn ==
    t_pc \in {"returned", "raised"} =>
        /\ Len(t_history) >= 2
        /\ NewMessages = {Len(t_history) - 1, Len(t_history)}
        /\ t_history[Len(t_history) - 1].role = "user"
        /\ t_history[Len(t_history)].role = "assistant"

====
